---------------------------- MODULE Spec2Model ----------------------------
(***************************************************************************)
(* Asset ledger contract of zachjesus/moss (Hyperledger Fabric chaincode,  *)
(* TypeScript).  The model follows the validation-rich variant of the      *)
(* contract: AssetTransferContract in assetTransfer.ts (lines 27-299), the *)
(* Asset entity in asset.ts (lines 13-120) and the helpers of utils.ts     *)
(* (src/unnamed/part_003, lines 25-201).                                   *)
(*                                                                         *)
(* A JavaScript string is a sequence of one-character strings, so that     *)
(* trim(), the identifier pattern, the ISO-8601 pattern and the file       *)
(* extension check are computed character by character.                    *)
(***************************************************************************)
EXTENDS Integers, Sequences, FiniteSets, TLC

VARIABLES store, clock, last

vars == <<store, clock, last>>

(***************************************************************************)
(* Bounds of the model.                                                    *)
(***************************************************************************)
\* ledger transaction timestamps are 0..MaxTime milliseconds after the epoch
MaxTime == 1
\* an update payload that is a JSON object has at most this many keys
MaxPayloadKeys == 2

(***************************************************************************)
(* Strings.                                                                *)
(***************************************************************************)
Digits == <<"0", "1", "2", "3", "4", "5", "6", "7", "8", "9">>

LowerLetters == {"a", "b", "c", "d", "e", "f", "g", "h", "i", "j", "k", "l", "m",
                 "n", "o", "p", "q", "r", "s", "t", "u", "v", "w", "x", "y", "z"}

IsDigit(c) == \E i \in 1..10 : Digits[i] = c

DigitValue(c) == CHOOSE i \in 0..9 : Digits[i + 1] = c

\* String.prototype.trim strips white space and line terminators
IsSpace(c) == c \in {" ", "\t", "\n", "\r"}

SetMin(S) == CHOOSE x \in S : \A y \in S : x <= y

SetMax(S) == CHOOSE x \in S : \A y \in S : y <= x

RECURSIVE TrimStart(_)
TrimStart(s) ==
  IF s = <<>> THEN s ELSE IF IsSpace(s[1]) THEN TrimStart(Tail(s)) ELSE s

RECURSIVE TrimEnd(_)
TrimEnd(s) ==
  IF s = <<>> THEN s
  ELSE IF IsSpace(s[Len(s)]) THEN TrimEnd(SubSeq(s, 1, Len(s) - 1)) ELSE s

Trim(s) == TrimEnd(TrimStart(s))

StartsWith(s, p) == Len(s) >= Len(p) /\ SubSeq(s, 1, Len(p)) = p

\* the part of s after the last occurrence of the character c (all of s if none)
AfterLast(s, c) ==
  LET at == {i \in 1..Len(s) : s[i] = c}
  IN  IF at = {} THEN s ELSE SubSeq(s, SetMax(at) + 1, Len(s))

\* the part of s before the first occurrence of the character c (all of s if none)
BeforeFirst(s, c) ==
  LET at == {i \in 1..Len(s) : s[i] = c}
  IN  IF at = {} THEN s ELSE SubSeq(s, 1, SetMin(at) - 1)

RECURSIVE Concat(_)
Concat(ss) == IF ss = <<>> THEN <<>> ELSE Head(ss) \o Concat(Tail(ss))

\* String.prototype.toLowerCase on the letters the inputs use
ToLowerChar(c) ==
  CASE c = "P" -> "p" [] c = "D" -> "d" [] c = "F" -> "f" [] OTHER -> c

ToLowerCase(s) == [i \in 1..Len(s) |-> ToLowerChar(s[i])]

(***************************************************************************)
(* utils.ts                                                                *)
(***************************************************************************)
IDENTIFIER_TYPES ==
  << <<"I", "S", "B", "N">>, <<"O", "C", "L", "C">>, <<"L", "C", "C", "N">>,
     <<"O", "L", "I", "D">>, <<"D", "O", "I">> >>

IdentifierPrefix == <<"_">>

TYPE_DOI == <<"D", "O", "I">>

ACCEPTED_FILE_EXTENSIONS ==
  << <<"p", "d", "f">>, <<"e", "p", "u", "b">>, <<"t", "x", "t">>, <<"j", "s", "o", "n">>,
     <<"j", "p", "g">>, <<"j", "p", "e", "g">>, <<"p", "n", "g">> >>

DEFAULT_OWNER ==
  <<"Z", "a", "c", "h", "a", "r", "y", " ", "R", "o", "s", "a", "r", "i", "o">>

STATUS_OPEN == <<"o", "p", "e", "n">>
STATUS_LOANED == <<"l", "o", "a", "n", "e", "d">>
STATUS_LOCKED == <<"l", "o", "c", "k", "e", "d">>

ACCEPTED_STATUSES == <<STATUS_OPEN, STATUS_LOANED, STATUS_LOCKED>>

Includes(list, x) == \E i \in 1..Len(list) : list[i] = x

\* isAcceptedStatus accepting every string
isAcceptedStatus_Any(s) == TRUE

isAcceptedStatus(s) == Includes(ACCEPTED_STATUSES, s)

\* parseIdentifier: [ok, type, value]; ok = FALSE stands for the thrown Error.
\* The pattern is ^(ISBN|OCLC|LCCN|OLID|DOI)_(.+)$ on the trimmed string.
parseIdentifier(identifier) ==
  LET trimmed == Trim(identifier)
      types == {i \in 1..Len(IDENTIFIER_TYPES) :
                  /\ StartsWith(trimmed, IDENTIFIER_TYPES[i] \o IdentifierPrefix)
                  /\ Len(trimmed) > Len(IDENTIFIER_TYPES[i]) + 1
                  /\ \A j \in 1..Len(trimmed) : trimmed[j] \notin {"\n", "\r"}}
      bad == [ok |-> FALSE, type |-> <<>>, value |-> <<>>]
  IN  IF trimmed = <<>> \/ types = {}
      THEN bad
      ELSE LET typeRaw == IDENTIFIER_TYPES[SetMin(types)]
               value == Trim(SubSeq(trimmed, Len(typeRaw) + 2, Len(trimmed)))
           IN  IF value = <<>>
               THEN bad
               ELSE [ok |-> TRUE, type |-> typeRaw, value |-> value]

\* parsedIdToString leaving the type out
parsedIdToString_ValueOnly(p) == p.value

parsedIdToString(p) == p.type \o IdentifierPrefix \o p.value

\* encodeURIComponent on the characters the inputs use
EncodeChar(c) ==
  CASE c = "/" -> <<"%", "2", "F">>
    [] c = " " -> <<"%", "2", "0">>
    [] c = ":" -> <<"%", "3", "A">>
    [] OTHER -> <<c>>

encodeURIComponent(s) == Concat([i \in 1..Len(s) |-> EncodeChar(s[i])])

CrossrefPrefix ==
  <<"h", "t", "t", "p", "s", ":", "/", "/", "a", "p", "i", ".", "c", "r", "o", "s", "s",
    "r", "e", "f", ".", "o", "r", "g", "/", "w", "o", "r", "k", "s", "/">>

OpenLibraryPrefix ==
  <<"h", "t", "t", "p", "s", ":", "/", "/", "o", "p", "e", "n", "l", "i", "b", "r", "a",
    "r", "y", ".", "o", "r", "g", "/", "a", "p", "i", "/", "b", "o", "o", "k", "s", "?",
    "b", "i", "b", "k", "e", "y", "s", "=">>

OpenLibrarySuffix == <<"&", "f", "o", "r", "m", "a", "t", "=", "j", "s", "o", "n">>

\* the DOI handler building the URL from the value as it is
metadataHandlers_Unencoded(type, value) ==
  IF type = TYPE_DOI
  THEN CrossrefPrefix \o value
  ELSE OpenLibraryPrefix \o type \o <<":">> \o value \o OpenLibrarySuffix

metadataHandlers(type, value) ==
  IF type = TYPE_DOI
  THEN CrossrefPrefix \o encodeURIComponent(value)
  ELSE OpenLibraryPrefix \o type \o <<":">> \o value \o OpenLibrarySuffix

\* metadataHandler on a string input: [ok, value]
metadataHandler(input) ==
  LET parsed == parseIdentifier(input)
  IN  IF parsed.ok
      THEN [ok |-> TRUE, value |-> metadataHandlers(parsed.type, parsed.value)]
      ELSE [ok |-> FALSE, value |-> <<>>]

\* s[from..to] is a run of exactly n digits
DigitsAt(s, from, n) ==
  /\ Len(s) >= from + n - 1
  /\ \A i \in from..(from + n - 1) : IsDigit(s[i])

NumberAt(s, from) == 10 * DigitValue(s[from]) + DigitValue(s[from + 1])

\* [+-]\d{2}:\d{2} at s[from..], reaching the end of s
IsOffsetAt(s, from) ==
  /\ Len(s) = from + 5
  /\ s[from] \in {"+", "-"}
  /\ DigitsAt(s, from + 1, 2)
  /\ s[from + 3] = ":"
  /\ DigitsAt(s, from + 4, 2)

\* (?:Z|[+-]\d{2}:\d{2})?$ at s[from..]
IsZoneAt(s, from) ==
  \/ Len(s) = from - 1
  \/ Len(s) = from /\ s[from] = "Z"
  \/ IsOffsetAt(s, from)

\* ISO_8601_REGEX:
\* ^\d{4}-\d{2}-\d{2}(?:[Tt ]\d{2}:\d{2}:\d{2}(?:\.\d+)?(?:Z|[+-]\d{2}:\d{2})?)?$
MatchesISO(s) ==
  /\ DigitsAt(s, 1, 4) /\ Len(s) >= 10
  /\ s[5] = "-" /\ DigitsAt(s, 6, 2) /\ s[8] = "-" /\ DigitsAt(s, 9, 2)
  /\ \/ Len(s) = 10
     \/ /\ Len(s) >= 19
        /\ s[11] \in {"T", "t", " "}
        /\ DigitsAt(s, 12, 2) /\ s[14] = ":" /\ DigitsAt(s, 15, 2)
        /\ s[17] = ":" /\ DigitsAt(s, 18, 2)
        /\ \/ IsZoneAt(s, 20)
           \/ /\ Len(s) >= 21
              /\ s[20] = "."
              /\ \E e \in 21..Len(s) :
                   /\ \A i \in 21..e : IsDigit(s[i])
                   /\ IsZoneAt(s, e + 1)

\* new Date(s) is a valid instant: the calendar fields are in range
IsCalendarInstant(s) ==
  /\ NumberAt(s, 6) \in 1..12
  /\ NumberAt(s, 9) \in 1..31
  /\ Len(s) > 10 =>
       /\ NumberAt(s, 12) \in 0..23
       /\ NumberAt(s, 15) \in 0..59
       /\ NumberAt(s, 18) \in 0..59

validateISO(value) ==
  LET s == Trim(value)
  IN  /\ s # <<>>
      /\ MatchesISO(s)
      /\ IsCalendarInstant(s)

IsAlnumLower(c) == c \in LowerLetters \/ IsDigit(c)

\* s.match(/\.([a-z0-9]+)(?:$|\?)/): the leftmost "." followed by a run of
\* [a-z0-9] that reaches the end of s or a "?"; <<>> when there is no match
ExtensionMatch(s) ==
  LET runEnd(i) == SetMax({j \in i..Len(s) : \A k \in (i + 1)..j : IsAlnumLower(s[k])})
      hits == {i \in 1..Len(s) :
                 /\ s[i] = "."
                 /\ runEnd(i) > i
                 /\ (runEnd(i) = Len(s) \/ s[runEnd(i) + 1] = "?")}
  IN  IF hits = {} THEN <<>> ELSE SubSeq(s, SetMin(hits) + 1, runEnd(SetMin(hits)))

\* isAcceptedFileExtension comparing the extension as it is written
isAcceptedFileExtension_CaseSensitive(fileNameOrMime) ==
  LET s == Trim(fileNameOrMime)
      subtype == BeforeFirst(BeforeFirst(AfterLast(s, "/"), ";"), "+")
  IN  /\ Trim(fileNameOrMime) # <<>>
      /\ \/ (\E i \in 1..Len(s) : s[i] = "/") /\ Includes(ACCEPTED_FILE_EXTENSIONS, subtype)
         \/ ExtensionMatch(s) # <<>> /\ Includes(ACCEPTED_FILE_EXTENSIONS, ExtensionMatch(s))

isAcceptedFileExtension(fileNameOrMime) ==
  LET s == ToLowerCase(Trim(fileNameOrMime))
      subtype == BeforeFirst(BeforeFirst(AfterLast(s, "/"), ";"), "+")
  IN  /\ Trim(fileNameOrMime) # <<>>
      /\ \/ (\E i \in 1..Len(s) : s[i] = "/") /\ Includes(ACCEPTED_FILE_EXTENSIONS, subtype)
         \/ ExtensionMatch(s) # <<>> /\ Includes(ACCEPTED_FILE_EXTENSIONS, ExtensionMatch(s))


(***************************************************************************)
(* asset.ts: the Asset entity and its validating setters.  A setter        *)
(* returns [err, asset]; err # "OK" stands for the Error it throws, named  *)
(* by the error kind of the specification that its message belongs to.     *)
(***************************************************************************)
NONE == <<"n", "o", "n", "e">>

\* own properties of an Asset instance, in the order the class declares them
AssetFieldOrder ==
  <<"identifier", "metadata", "owner", "lendee", "createdAt", "updatedAt", "status",
    "licenseEndsAt", "fileLocation">>

Ok(asset) == [err |-> "OK", asset |-> asset]

Throw(kind, asset) == [err |-> kind, asset |-> asset]

\* run the next statement unless an earlier one has thrown
Bind(r, F(_)) == IF r.err = "OK" THEN F(r.asset) ELSE r

\* new Asset(identifier)
NewAsset(identifier) ==
  [identifier |-> identifier,
   metadata |-> LET m == metadataHandler(identifier)
                IN  IF m.ok THEN m.value ELSE identifier,
   owner |-> DEFAULT_OWNER,
   lendee |-> NONE,
   createdAt |-> <<>>,
   updatedAt |-> <<>>,
   status |-> STATUS_OPEN,
   licenseEndsAt |-> <<>>,
   fileLocation |-> <<>>]

\* setMetadata storing a string that is white space only
setMetadata_AcceptsBlank(asset, metadata) == Ok([asset EXCEPT !.metadata = Trim(metadata)])

setMetadata(asset, metadata) ==
  IF Trim(metadata) = <<>>
  THEN Throw("EmptyField", asset)
  ELSE Ok([asset EXCEPT !.metadata = Trim(metadata)])

\* setOwner storing the owner as given
setOwner_NoTrim(asset, owner) ==
  IF Trim(owner) = <<>>
  THEN Throw("EmptyField", asset)
  ELSE Ok([asset EXCEPT !.owner = owner])

setOwner(asset, owner) ==
  IF Trim(owner) = <<>>
  THEN Throw("EmptyField", asset)
  ELSE Ok([asset EXCEPT !.owner = Trim(owner)])

\* setLendee storing the argument as given
setLendee_NoTrim(asset, lendee) ==
  IF Trim(lendee) = <<>>
  THEN Throw("EmptyField", asset)
  ELSE Ok([asset EXCEPT !.lendee = lendee])

setLendee(asset, lendee) ==
  IF Trim(lendee) = <<>>
  THEN Throw("EmptyField", asset)
  ELSE Ok([asset EXCEPT !.lendee = Trim(lendee)])

setCreatedAt(asset, isoDate) ==
  IF ~validateISO(isoDate)
  THEN Throw("InvalidTimestamp", asset)
  ELSE Ok([asset EXCEPT !.createdAt = isoDate])

\* setUpdatedAt stamping the creation time as well
setUpdatedAt_Both(asset, isoDate) ==
  IF ~validateISO(isoDate)
  THEN Throw("InvalidTimestamp", asset)
  ELSE Ok([asset EXCEPT !.updatedAt = isoDate, !.createdAt = isoDate])

setUpdatedAt(asset, isoDate) ==
  IF ~validateISO(isoDate)
  THEN Throw("InvalidTimestamp", asset)
  ELSE Ok([asset EXCEPT !.updatedAt = isoDate])

setStatus(asset, status) ==
  IF ~isAcceptedStatus(status)
  THEN Throw("InvalidStatus", asset)
  ELSE Ok([asset EXCEPT !.status = status])

setLicenseEndsAt(asset, isoDate) ==
  IF ~validateISO(isoDate)
  THEN Throw("InvalidTimestamp", asset)
  ELSE Ok([asset EXCEPT !.licenseEndsAt = isoDate])

\* setFile storing the location before it looks at the file name
setFile_LocationFirst(asset, location, fileNameOrMime) ==
  IF Trim(location) = <<>>
  THEN Throw("EmptyField", asset)
  ELSE IF Trim(fileNameOrMime) = <<>>
       THEN Throw("EmptyField", [asset EXCEPT !.fileLocation = location])
       ELSE IF ~isAcceptedFileExtension(fileNameOrMime)
            THEN Throw("UnsupportedFileType", [asset EXCEPT !.fileLocation = location])
            ELSE Ok([asset EXCEPT !.fileLocation = location])

\* setFile keeping the file name on the record as well
setFile_KeepsName(asset, location, fileNameOrMime) ==
  IF Trim(location) = <<>> \/ Trim(fileNameOrMime) = <<>>
  THEN Throw("EmptyField", asset)
  ELSE IF ~isAcceptedFileExtension(fileNameOrMime)
       THEN Throw("UnsupportedFileType", asset)
       ELSE Ok([key \in DOMAIN asset \cup {"fileMimeOrName"} |->
                  IF key = "fileMimeOrName" THEN fileNameOrMime
                  ELSE IF key = "fileLocation" THEN location ELSE asset[key]])

setFile(asset, location, fileNameOrMime) ==
  IF Trim(location) = <<>> \/ Trim(fileNameOrMime) = <<>>
  THEN Throw("EmptyField", asset)
  ELSE IF ~isAcceptedFileExtension(fileNameOrMime)
       THEN Throw("UnsupportedFileType", asset)
       ELSE Ok([asset EXCEPT !.fileLocation = location])

(***************************************************************************)
(* The ledger record wire format: stringify(sortKeysRecursive(plain)).     *)
(* The bytes of a record are the sequence of its <<key, value>> pairs.     *)
(***************************************************************************)
\* UTF-16 code unit order of the characters that occur in property names and keys
CodeUnitOrder ==
  <<" ", "/", "1", "2", "A", "B", "D", "E", "I", "L", "M", "N", "O", "S", "_", "a", "b", "c", "d", "e", "f", "g", "h", "i", "j", "k", "l", "m", "n",
    "o", "p", "q", "r", "s", "t", "u", "v", "w", "x", "y", "z">>

CodeUnit(c) == CHOOSE i \in 1..Len(CodeUnitOrder) : CodeUnitOrder[i] = c

\* the characters of a property name
Spell(key) ==
  CASE key = "identifier" -> <<"i", "d", "e", "n", "t", "i", "f", "i", "e", "r">>
    [] key = "metadata" -> <<"m", "e", "t", "a", "d", "a", "t", "a">>
    [] key = "owner" -> <<"o", "w", "n", "e", "r">>
    [] key = "lendee" -> <<"l", "e", "n", "d", "e", "e">>
    [] key = "createdAt" -> <<"c", "r", "e", "a", "t", "e", "d", "A", "t">>
    [] key = "updatedAt" -> <<"u", "p", "d", "a", "t", "e", "d", "A", "t">>
    [] key = "status" -> <<"s", "t", "a", "t", "u", "s">>
    [] key = "licenseEndsAt" ->
         <<"l", "i", "c", "e", "n", "s", "e", "E", "n", "d", "s", "A", "t">>
    [] key = "fileLocation" -> <<"f", "i", "l", "e", "L", "o", "c", "a", "t", "i", "o", "n">>
    [] key = "fileMimeOrName" ->
         <<"f", "i", "l", "e", "M", "i", "m", "e", "O", "r", "N", "a", "m", "e">>
    [] key = "title" -> <<"t", "i", "t", "l", "e">>

\* a < b in the default comparison of Array.prototype.sort on strings
RECURSIVE StringLess(_, _)
StringLess(a, b) ==
  IF a = <<>> THEN b # <<>>
  ELSE IF b = <<>> THEN FALSE
  ELSE IF Head(a) = Head(b) THEN StringLess(Tail(a), Tail(b))
  ELSE CodeUnit(Head(a)) < CodeUnit(Head(b))

\* sort-keys-recursive leaving the keys in the order they were assigned
SortKeys_AsAssigned(keyOrder) == keyOrder

\* the keys of keyOrder, sorted (sort-keys-recursive on a flat object)
RECURSIVE SortKeys(_)
SortKeys(keyOrder) ==
  IF keyOrder = <<>> THEN <<>>
  ELSE LET least == CHOOSE i \in 1..Len(keyOrder) :
                      \A j \in 1..Len(keyOrder) :
                        ~StringLess(Spell(keyOrder[j]), Spell(keyOrder[i]))
           rest == [j \in 1..(Len(keyOrder) - 1) |->
                      IF j < least THEN keyOrder[j] ELSE keyOrder[j + 1]]
       IN  <<keyOrder[least]>> \o SortKeys(rest)

SortedAssetKeys == SortKeys(AssetFieldOrder)

\* stringify(sortKeysRecursive(plain)) of an object whose own properties were
\* assigned in keyOrder
StringifyObject(keyOrder, asset) ==
  LET sorted == SortKeys(keyOrder)
  IN  [i \in 1..Len(sorted) |-> <<sorted[i], asset[sorted[i]]>>]

\* the own properties of an object: those of the class, then any other
OwnKeys(obj) ==
  SelectSeq(AssetFieldOrder \o <<"fileMimeOrName", "title">>, LAMBDA key : key \in DOMAIN obj)

\* stringify(sortKeysRecursive(JSON.parse(JSON.stringify(asset)))): every own
\* property of the object is written, the keys sorted (those of an object that
\* has the properties of the class and no other are SortedAssetKeys)
Stringify(asset) ==
  IF OwnKeys(asset) = AssetFieldOrder
  THEN [i \in 1..Len(SortedAssetKeys) |-> <<SortedAssetKeys[i], asset[SortedAssetKeys[i]]>>]
  ELSE StringifyObject(OwnKeys(asset), asset)

\* JSON.parse does not throw on the bytes: every property name of the text has
\* its value (a text that breaks off after a property name has not)
Parses(bytes) == \A i \in 1..Len(bytes) : Len(bytes[i]) = 2

\* JSON.parse of the bytes of a stored record
JSONParse(bytes) ==
  [k \in {bytes[i][1] : i \in 1..Len(bytes)} |->
     bytes[CHOOSE i \in 1..Len(bytes) : bytes[i][1] = k][2]]

\* Object.assign keeping the target as it is
ObjectAssign_TargetOnly(target, source) == target

\* Object.assign(target, source)
ObjectAssign(target, source) ==
  [k \in DOMAIN target \cup DOMAIN source |->
     IF k \in DOMAIN source THEN source[k] ELSE target[k]]

(***************************************************************************)
(* The State Store (ctx.stub): a function from the keys present to bytes.  *)
(***************************************************************************)
\* getState: the empty buffer for a key that is absent
getState(st, key) == IF key \in DOMAIN st THEN st[key] ELSE <<>>

putState(st, key, bytes) ==
  [k \in DOMAIN st \cup {key} |-> IF k = key THEN bytes ELSE st[k]]

\* deleteState that removes nothing
deleteState_Nothing(st, key) == st

deleteState(st, key) == [k \in DOMAIN st \ {key} |-> st[k]]

\* Date.prototype.toISOString of the instant t milliseconds after the epoch
ToISOString(t) ==
  <<"1", "9", "7", "0", "-", "0", "1", "-", "0", "1", "T", "0", "0", ":", "0", "0", ":",
    "0", "0", ".">>
  \o <<Digits[((t \div 100) % 10) + 1], Digits[((t \div 10) % 10) + 1],
       Digits[(t % 10) + 1]>>
  \o <<"Z">>

\* a timestamp read from a clock that runs ahead of the ledger's
getLedgerTimestampISO_LocalClock(t) == ToISOString(t + 1)

getLedgerTimestampISO(t) == ToISOString(t)

(***************************************************************************)
(* assetTransfer.ts: AssetTransferContract.  A transaction is a function   *)
(* of the State Store, its string arguments and the ledger timestamp t; it *)
(* returns [err, store]: the error kind ("OK" when it returns normally)    *)
(* and the State Store after it.                                           *)
(***************************************************************************)
Done(st) == [err |-> "OK", store |-> st]

Fail(kind, st) == [err |-> kind, store |-> st]

\* requireNonEmpty letting every string pass
requireNonEmpty_Any(value) == TRUE

\* requireNonEmpty on a string: TRUE when it does not throw
requireNonEmpty(value) == Trim(value) # <<>>

\* isSupportedIdentifier accepting every string that is not empty
isSupportedIdentifier_NonEmpty(identifier) == Trim(identifier) # <<>>

isSupportedIdentifier(identifier) == parseIdentifier(identifier).ok

\* AssetExists answering for every identifier that is not empty
AssetExists_Always(st, identifier) == identifier # <<>>

\* AssetExists answering that no key is present
AssetExists_Never(st, identifier) == FALSE

AssetExists(st, identifier) ==
  IF identifier = <<>> THEN FALSE ELSE getState(st, identifier) # <<>>

\* putAsset filing the record under its metadata reference
putAsset_UnderMetadata(st, asset) == putState(st, asset.metadata, Stringify(asset))

putAsset(st, asset) == putState(st, asset.identifier, Stringify(asset))

\* putAsset of an Asset whose own properties were assigned in keyOrder
putAssetAssigned(st, keyOrder, asset) ==
  putState(st, asset.identifier, StringifyObject(keyOrder, asset))

\* a transaction that writes the record as far as the setters got
WriteOrThrow_Partial(st, r) ==
  IF r.err = "OK" THEN Done(putAsset(st, r.asset)) ELSE Fail(r.err, putAsset(st, r.asset))

\* the tail of every writing transaction: putAsset unless a setter has thrown
WriteOrThrow(st, r) == IF r.err = "OK" THEN Done(putAsset(st, r.asset)) ELSE Fail(r.err, st)

\* the record as the invocation before this one found it in the store
LoadAsset_Retained(st, identifier) ==
  ObjectAssign(NewAsset(identifier), JSONParse(getState(last.before, identifier)))

\* Object.assign(new Asset(identifier), JSON.parse(assetJSON.toString()))
LoadAsset(st, identifier) ==
  ObjectAssign(NewAsset(identifier), JSONParse(getState(st, identifier)))

\* the i-th transaction argument, or the default of the parameter when omitted
Arg(args, i, default) == IF Len(args) >= i THEN args[i] ELSE default

\* CreateAsset testing the status before the file name
CreateAsset_StatusFirst(st, args, t) ==
  LET identifier == args[1]
      owner == Arg(args, 2, DEFAULT_OWNER)
      status == Arg(args, 3, STATUS_OPEN)
      fileLocation == Arg(args, 4, <<>>)
      fileMimeOrName == Arg(args, 5, <<>>)
      now == getLedgerTimestampISO(t)
      a0 == NewAsset(identifier)
      r1 == IF Trim(owner) # <<>> THEN setOwner(a0, owner) ELSE Ok(a0)
      r2 == Bind(r1, LAMBDA a : setLendee(a, NONE))
      r3 == Bind(r2, LAMBDA a : setCreatedAt(a, now))
      r4 == Bind(r3, LAMBDA a : setUpdatedAt(a, now))
      r5 == Bind(r4, LAMBDA a : setStatus(a, status))
      r6 == Bind(r5, LAMBDA a : IF fileLocation # <<>>
                                THEN setFile(a, fileLocation, fileMimeOrName)
                                ELSE Ok(a))
  IN  IF ~isSupportedIdentifier(identifier) THEN Fail("UnsupportedIdentifier", st)
      ELSE IF AssetExists(st, identifier) THEN Fail("AlreadyExists", st)
      ELSE IF ~isAcceptedStatus(status) THEN Fail("InvalidStatus", st)
      ELSE IF fileLocation # <<>> /\ fileMimeOrName = <<>> THEN Fail("MissingFileType", st)
      ELSE WriteOrThrow(st, r6)

CreateAsset(st, args, t) ==
  LET identifier == args[1]
      owner == Arg(args, 2, DEFAULT_OWNER)
      status == Arg(args, 3, STATUS_OPEN)
      fileLocation == Arg(args, 4, <<>>)
      fileMimeOrName == Arg(args, 5, <<>>)
      now == getLedgerTimestampISO(t)
      a0 == NewAsset(identifier)
      r1 == IF Trim(owner) # <<>> THEN setOwner(a0, owner) ELSE Ok(a0)
      r2 == Bind(r1, LAMBDA a : setLendee(a, NONE))
      r3 == Bind(r2, LAMBDA a : setCreatedAt(a, now))
      r4 == Bind(r3, LAMBDA a : setUpdatedAt(a, now))
      r5 == Bind(r4, LAMBDA a : setStatus(a, status))
      r6 == Bind(r5, LAMBDA a : IF fileLocation # <<>>
                                THEN setFile(a, fileLocation, fileMimeOrName)
                                ELSE Ok(a))
  IN  IF ~isSupportedIdentifier(identifier) THEN Fail("UnsupportedIdentifier", st)
      ELSE IF AssetExists(st, identifier) THEN Fail("AlreadyExists", st)
      ELSE IF fileLocation # <<>> /\ fileMimeOrName = <<>> THEN Fail("MissingFileType", st)
      ELSE IF ~isAcceptedStatus(status) THEN Fail("InvalidStatus", st)
      ELSE WriteOrThrow(st, r6)

\* A value of the parsed update payload: a JSON string with its characters, or
\* another JSON value (an object carries the text stringify gives it).
JString(s) == [t |-> "string", s |-> s]

JNumber == [t |-> "number", s |-> <<"7">>]

JObject == [t |-> "object", s |-> <<"{", "}">>]

\* requireNonEmpty(updateData[key]): TRUE when it does not throw
requireNonEmptyField(updateData, key) ==
  /\ key \in DOMAIN updateData
  /\ updateData[key].t = "string"
  /\ Trim(updateData[key].s) # <<>>

UpdateOwner(updateData, asset) ==
  IF "owner" \notin DOMAIN updateData THEN Ok(asset)
  ELSE IF ~requireNonEmptyField(updateData, "owner") THEN Throw("EmptyField", asset)
  ELSE setOwner(asset, updateData["owner"].s)

UpdateStatus(updateData, asset) ==
  IF "status" \notin DOMAIN updateData THEN Ok(asset)
  ELSE IF ~requireNonEmptyField(updateData, "status") THEN Throw("EmptyField", asset)
  ELSE IF ~isAcceptedStatus(updateData["status"].s) THEN Throw("InvalidStatus", asset)
  ELSE setStatus(asset, updateData["status"].s)

UpdateLendee(updateData, asset) ==
  IF "lendee" \notin DOMAIN updateData THEN Ok(asset)
  ELSE IF ~requireNonEmptyField(updateData, "lendee") THEN Throw("EmptyField", asset)
  ELSE setLendee(asset, updateData["lendee"].s)

UpdateLicenseEndsAt(updateData, asset) ==
  IF "licenseEndsAt" \notin DOMAIN updateData THEN Ok(asset)
  ELSE IF ~requireNonEmptyField(updateData, "licenseEndsAt") THEN Throw("EmptyField", asset)
  ELSE setLicenseEndsAt(asset, updateData["licenseEndsAt"].s)

\* the file branch of UpdateAsset taking the location without a file name
UpdateFile_LocationOnly(updateData, asset) ==
  IF "fileLocation" \notin DOMAIN updateData THEN Ok(asset)
  ELSE IF ~requireNonEmptyField(updateData, "fileLocation") THEN Throw("EmptyField", asset)
  ELSE Ok([asset EXCEPT !.fileLocation = updateData["fileLocation"].s])

UpdateFile(updateData, asset) ==
  IF "fileLocation" \notin DOMAIN updateData THEN Ok(asset)
  ELSE IF \/ ~requireNonEmptyField(updateData, "fileLocation")
          \/ ~requireNonEmptyField(updateData, "fileMimeOrName")
       THEN Throw("EmptyField", asset)
  ELSE setFile(asset, updateData["fileLocation"].s, updateData["fileMimeOrName"].s)

UpdateMetadata(updateData, asset) ==
  IF "metadata" \notin DOMAIN updateData THEN Ok(asset)
  ELSE IF updateData["metadata"].t = "string" THEN setMetadata(asset, updateData["metadata"].s)
  ELSE IF updateData["metadata"].t = "object" THEN setMetadata(asset, updateData["metadata"].s)
  ELSE Throw("EmptyField", asset)

\* updates is the text of the payload: kind "blank" (empty or white space),
\* "invalid" (not JSON), "null", "primitive" (a JSON number, string or boolean),
\* "array", or "object" with the properties obj.
UpdateAsset(st, identifier, updates, t) ==
  LET updateData == updates.obj
      a0 == LoadAsset(st, identifier)
      r1 == UpdateOwner(updateData, a0)
      r2 == Bind(r1, LAMBDA a : UpdateStatus(updateData, a))
      r3 == Bind(r2, LAMBDA a : UpdateLendee(updateData, a))
      r4 == Bind(r3, LAMBDA a : UpdateLicenseEndsAt(updateData, a))
      r5 == Bind(r4, LAMBDA a : UpdateFile(updateData, a))
      r6 == Bind(r5, LAMBDA a : UpdateMetadata(updateData, a))
      r7 == Bind(r6, LAMBDA a : setUpdatedAt(a, getLedgerTimestampISO(t)))
  IN  IF ~requireNonEmpty(identifier) THEN Fail("EmptyField", st)
      ELSE IF updates.kind = "blank" THEN Fail("EmptyField", st)
      ELSE IF ~AssetExists(st, identifier) THEN Fail("NotFound", st)
      ELSE IF updates.kind = "invalid" THEN Fail("MalformedInput", st)
      ELSE IF updates.kind \in {"null", "primitive"} THEN Fail("TypeError", st)
      ELSE WriteOrThrow(st, r7)

\* LendAsset refusing only a record that is already loaned
LendAsset_LoanedOnly(st, identifier, lendee, t) ==
  LET a0 == LoadAsset(st, identifier)
      r1 == setStatus(a0, STATUS_LOANED)
      r2 == Bind(r1, LAMBDA a : setLendee(a, lendee))
      r3 == Bind(r2, LAMBDA a : setUpdatedAt(a, getLedgerTimestampISO(t)))
  IN  IF ~requireNonEmpty(identifier) THEN Fail("EmptyField", st)
      ELSE IF ~requireNonEmpty(lendee) THEN Fail("EmptyField", st)
      ELSE IF getState(st, identifier) = <<>> THEN Fail("NotFound", st)
      ELSE IF a0.status = STATUS_LOANED THEN Fail("NotAvailable", st)
      ELSE WriteOrThrow(st, r3)

LendAsset(st, identifier, lendee, t) ==
  LET a0 == LoadAsset(st, identifier)
      r1 == setStatus(a0, STATUS_LOANED)
      r2 == Bind(r1, LAMBDA a : setLendee(a, lendee))
      r3 == Bind(r2, LAMBDA a : setUpdatedAt(a, getLedgerTimestampISO(t)))
  IN  IF ~requireNonEmpty(identifier) THEN Fail("EmptyField", st)
      ELSE IF ~requireNonEmpty(lendee) THEN Fail("EmptyField", st)
      ELSE IF getState(st, identifier) = <<>> THEN Fail("NotFound", st)
      ELSE IF a0.status # STATUS_OPEN THEN Fail("NotAvailable", st)
      ELSE WriteOrThrow(st, r3)

\* ReturnAsset that does not stamp the record with the transaction time
ReturnAsset_NoTimestamp(st, identifier, t) ==
  LET a0 == LoadAsset(st, identifier)
      r1 == setStatus(a0, STATUS_OPEN)
      r2 == Bind(r1, LAMBDA a : setLendee(a, NONE))
  IN  IF ~requireNonEmpty(identifier) THEN Fail("EmptyField", st)
      ELSE IF getState(st, identifier) = <<>> THEN Fail("NotFound", st)
      ELSE IF a0.status # STATUS_LOANED THEN Fail("NotLoaned", st)
      ELSE WriteOrThrow(st, r2)

ReturnAsset(st, identifier, t) ==
  LET a0 == LoadAsset(st, identifier)
      r1 == setStatus(a0, STATUS_OPEN)
      r2 == Bind(r1, LAMBDA a : setLendee(a, NONE))
      r3 == Bind(r2, LAMBDA a : setUpdatedAt(a, getLedgerTimestampISO(t)))
  IN  IF ~requireNonEmpty(identifier) THEN Fail("EmptyField", st)
      ELSE IF getState(st, identifier) = <<>> THEN Fail("NotFound", st)
      ELSE IF a0.status # STATUS_LOANED THEN Fail("NotLoaned", st)
      ELSE WriteOrThrow(st, r3)

\* DeleteAsset refusing a record that is not open
DeleteAsset_OpenOnly(st, identifier) ==
  IF ~requireNonEmpty(identifier) THEN Fail("EmptyField", st)
  ELSE IF ~AssetExists(st, identifier) THEN Fail("NotFound", st)
  ELSE IF LoadAsset(st, identifier).status # STATUS_OPEN THEN Fail("NotAvailable", st)
  ELSE Done(deleteState(st, identifier))

DeleteAsset(st, identifier) ==
  IF ~requireNonEmpty(identifier) THEN Fail("EmptyField", st)
  ELSE IF ~AssetExists(st, identifier) THEN Fail("NotFound", st)
  ELSE Done(deleteState(st, identifier))

\* A query returns [err, value, store]: the value it evaluates to and the State
\* Store after it.
Reply(value, st) == [err |-> "OK", value |-> value, store |-> st]

Refuse(kind, st) == [err |-> kind, value |-> <<>>, store |-> st]

\* ReadAsset consuming the record it returns
ReadAsset_Removing(st, identifier) ==
  IF ~requireNonEmpty(identifier) THEN Refuse("EmptyField", st)
  ELSE IF getState(st, identifier) = <<>> THEN Refuse("NotFound", st)
  ELSE Reply(getState(st, identifier), deleteState(st, identifier))

ReadAsset(st, identifier) ==
  IF ~requireNonEmpty(identifier) THEN Refuse("EmptyField", st)
  ELSE IF getState(st, identifier) = <<>> THEN Refuse("NotFound", st)
  ELSE Reply(getState(st, identifier), st)

\* getStateByRange("", ""): the keys present, in key order
RECURSIVE ScanKeys(_)
ScanKeys(keys) ==
  IF keys = {} THEN <<>>
  ELSE LET least == CHOOSE k \in keys : \A j \in keys : ~StringLess(j, k)
       IN  <<least>> \o ScanKeys(keys \ {least})

\* GetAllAssets giving up the scan at the first value that does not parse
GetAllAssets_UntilDamaged(st) ==
  LET scan == ScanKeys(DOMAIN st)
      bad == {i \in 1..Len(scan) : ~Parses(st[scan[i]])}
      upto == IF bad = {} THEN Len(scan) ELSE SetMin(bad) - 1
  IN  Reply([i \in 1..upto |-> JSONParse(st[scan[i]])], st)

\* the values of the scan that JSON.parse accepts, each parsed, in scan order;
\* a value on which JSON.parse throws is logged and passed over
GetAllAssets(st) ==
  LET scan == ScanKeys(DOMAIN st)
      parsed == SelectSeq(scan, LAMBDA k : Parses(st[k]))
  IN  Reply([i \in 1..Len(parsed) |-> JSONParse(st[parsed[i]])], st)

(***************************************************************************)
(* Inputs of the transactions.                                             *)
(***************************************************************************)
ISBN_1 == <<"I", "S", "B", "N", "_", "1">>

DOI_ab == <<"D", "O", "I", "_", "a", "/", "b">>

Alice == <<"A", "l", "i", "c", "e">>

Bob == <<"B", "o", "b">>

\* two supported identifiers and the empty string
IdentifierArgs == {ISBN_1, DOI_ab, <<>>}

\* Update, Lend and Return are invoked on ISBN_1 (and on the empty string);
\* DOI_ab is the other key of the ledger, created and deleted only
TargetArgs == {ISBN_1, <<>>}

\* an owner, the same with white space around the name, and white space only
OwnerArgs == {Alice, <<" ">> \o Alice \o <<" ">>, <<" ">>}

StatusArgs == {STATUS_OPEN, STATUS_LOANED, <<"l", "o", "s", "t">>}

\* argument lists of CreateAsset: trailing parameters may be omitted
CreateArgs ==
  {<<i>> : i \in IdentifierArgs}
  \cup {<<i, o>> : i \in IdentifierArgs, o \in OwnerArgs}
  \cup {<<i, o, s>> : i \in IdentifierArgs, o \in OwnerArgs, s \in StatusArgs}

\* two borrowers, one with white space around the name, "none", the empty string
LendeeArgs == {Bob, <<" ">> \o Bob \o <<" ">>, Alice, NONE, <<>>}

PayloadKeys == {"owner", "status", "lendee"}

PayloadValues(key) ==
  CASE key = "owner" -> {JString(Alice), JNumber}
    [] key = "status" -> {JString(STATUS_OPEN), JString(STATUS_LOANED),
                          JString(STATUS_LOCKED), JString(<<"l", "o", "s", "t">>)}
    [] key = "lendee" -> {JString(Bob), JString(NONE), JString(<<" ">>)}

\* the JSON objects with at most n of the keys, each with one of its values
PayloadObjects(keys, n) ==
  UNION {{f \in [K -> UNION {PayloadValues(k) : k \in K}] :
            \A k \in K : f[k] \in PayloadValues(k)} :
         K \in {K \in SUBSET keys : Cardinality(K) <= n}}

\* a timestamp of the caller's, which the ledger never supplies
CallerTime == <<"2", "0", "2", "0", "-", "0", "1", "-", "0", "1">>

\* JSON objects naming properties that UpdateAsset does not look at
ForeignObjects ==
  {[identifier |-> JString(DOI_ab)],
   [createdAt |-> JString(CallerTime), updatedAt |-> JString(CallerTime)],
   [identifier |-> JString(DOI_ab), createdAt |-> JString(CallerTime),
    updatedAt |-> JString(CallerTime), owner |-> JString(Alice)]}

Payloads ==
  {[kind |-> k, obj |-> <<>>] : k \in {"blank", "invalid", "null", "primitive", "array"}}
  \cup {[kind |-> "object", obj |-> o] : o \in PayloadObjects(PayloadKeys, MaxPayloadKeys)}
  \cup {[kind |-> "object", obj |-> o] : o \in ForeignObjects}

\* a file location, an accepted file name and one that is not accepted
Location == <<"s", "3", ":", "/", "/", "b">>

PdfName == <<"b", ".", "p", "d", "f">>

ExeName == <<"b", ".", "e", "x", "e">>

\* argument lists of CreateAsset that give a file location as well
CreateArgsWithFile ==
  CreateArgs
  \cup {<<i, Alice, s, Location>> : i \in IdentifierArgs, s \in StatusArgs}
  \cup {<<i, Alice, s, Location, n>> :
          i \in IdentifierArgs, s \in StatusArgs, n \in {PdfName, ExeName}}

\* JSON objects that name licenseEndsAt, the file, metadata, a file name
\* without a location, and a property the record does not have
FramePayloads ==
  {[kind |-> "object", obj |-> o] :
     o \in {[licenseEndsAt |-> JString(CallerTime)],
            [licenseEndsAt |-> JString(<<"s", "o", "o", "n">>)],
            [fileLocation |-> JString(Location), fileMimeOrName |-> JString(PdfName)],
            [fileLocation |-> JString(Location), fileMimeOrName |-> JString(ExeName)],
            [fileLocation |-> JString(Location)],
            [fileMimeOrName |-> JString(PdfName)],
            [metadata |-> JString(<<" ", "m">>)],
            [metadata |-> JString(<<" ">>)],
            [metadata |-> JObject],
            [metadata |-> JNumber],
            [title |-> JString(<<"t">>)]}}

(***************************************************************************)
(* The ledger.  Every invocation is one atomic step.  clock is the         *)
(* transaction time the ledger supplies to the invocations (it never runs  *)
(* backwards); last is the name of the transaction committed last.  An     *)
(* invocation that throws commits nothing.                                 *)
(***************************************************************************)
Init ==
  /\ store = <<>>
  /\ clock = 0
  /\ last = "None"

Invoke(op, r) ==
  /\ store' = r.store
  /\ last' = IF r.err = "OK" THEN op ELSE last
  /\ UNCHANGED clock

Tick ==
  /\ clock < MaxTime
  /\ clock' = clock + 1
  /\ UNCHANGED <<store, last>>

Create == \E args \in CreateArgs : Invoke("Create", CreateAsset(store, args, clock))

Update ==
  \E identifier \in TargetArgs, updates \in Payloads :
    Invoke("Update", UpdateAsset(store, identifier, updates, clock))

Lend ==
  \E identifier \in TargetArgs, lendee \in LendeeArgs :
    Invoke("Lend", LendAsset(store, identifier, lendee, clock))

Return == \E identifier \in TargetArgs : Invoke("Return", ReturnAsset(store, identifier, clock))

Delete == \E identifier \in IdentifierArgs : Invoke("Delete", DeleteAsset(store, identifier))

\* an evaluated (not submitted) transaction: it commits what it wrote, if anything
Query(r) ==
  /\ store' = r.store
  /\ UNCHANGED <<clock, last>>

Read == \E identifier \in IdentifierArgs : Query(ReadAsset(store, identifier))

Exists ==
  \E identifier \in IdentifierArgs :
    Query(Reply(AssetExists(store, identifier), store))

ListAll == Query(GetAllAssets(store))

Next ==
  Tick \/ Create \/ Update \/ Lend \/ Return \/ Delete \/ Read \/ Exists \/ ListAll

Spec == Init /\ [][Next]_vars

(***************************************************************************)
(* The ledger with a record of the invocation before.  Here last holds     *)
(* the whole invocation made last, committed or not: its operation and     *)
(* arguments, the store and the transaction time it ran at, and its        *)
(* outcome.  The invocations are those on the key ISBN_1.                  *)
(***************************************************************************)
\* the outcome [err, store] or [err, value, store] of an invocation
Execute(op, args, st, t) ==
  CASE op = "Create" -> CreateAsset(st, args, t)
    [] op = "Update" -> UpdateAsset(st, args[1], args[2], t)
    [] op = "Lend" -> LendAsset(st, args[1], args[2], t)
    [] op = "Return" -> ReturnAsset(st, args[1], t)
    [] op = "Delete" -> DeleteAsset(st, args[1])
    [] op = "Read" -> ReadAsset(st, args[1])
    [] op = "Exists" -> Reply(AssetExists(st, args[1]), st)
    [] op = "ListAll" -> GetAllAssets(st)
    [] OTHER -> Done(st)

Invocation(op, args, st, t) ==
  [op |-> op, args |-> args, before |-> st, at |-> t, out |-> Execute(op, args, st, t)]

ReplayInit ==
  /\ store = <<>>
  /\ clock = 0
  /\ last = Invocation("None", <<>>, <<>>, 0)

Submit(op, args) ==
  /\ last' = Invocation(op, args, store, clock)
  /\ store' = last'.out.store
  /\ UNCHANGED clock

\* the ledger time advances; the invocation made last stays on record
Advance ==
  /\ clock < MaxTime
  /\ clock' = clock + 1
  /\ UNCHANGED <<store, last>>

SubmitCreate == \E args \in {a \in CreateArgs : a[1] = ISBN_1} : Submit("Create", args)

SubmitUpdate ==
  \E updates \in {p \in Payloads : Cardinality(DOMAIN p.obj) <= 1} :
    Submit("Update", <<ISBN_1, updates>>)

SubmitLend == \E lendee \in LendeeArgs : Submit("Lend", <<ISBN_1, lendee>>)

SubmitReturn == Submit("Return", <<ISBN_1>>)

SubmitDelete == Submit("Delete", <<ISBN_1>>)

SubmitRead == Submit("Read", <<ISBN_1>>)

SubmitExists == Submit("Exists", <<ISBN_1>>)

SubmitListAll == Submit("ListAll", <<>>)

ReplayNext ==
  \/ Advance
  \/ SubmitCreate
  \/ SubmitUpdate
  \/ SubmitLend
  \/ SubmitReturn
  \/ SubmitDelete
  \/ SubmitRead
  \/ SubmitExists
  \/ SubmitListAll

ReplaySpec == ReplayInit /\ [][ReplayNext]_vars

(***************************************************************************)
(* The ledger as a scan may find it.  The State Store of the channel can   *)
(* also be written outside this contract, so the value under a key need    *)
(* not be a record text: GetAllAssets expects values that do not parse.    *)
(* Here records are created and deleted by the contract, Damage leaves a   *)
(* text that breaks off under a key, and last holds the step made last     *)
(* with its outcome.                                                       *)
(***************************************************************************)
ISBN_2 == <<"I", "S", "B", "N", "_", "2">>

ScanKeySet == {DOI_ab, ISBN_1, ISBN_2}

\* the text of a record, broken off after the name of its n-th property
BrokenOff(bytes, n) == SubSeq(bytes, 1, n - 1) \o << <<bytes[n][1]>> >>

ScanInit ==
  /\ store = <<>>
  /\ clock = 0
  /\ last = [op |-> "None", out |-> Done(<<>>)]

\* a step with outcome r
Step(op, r) ==
  /\ last' = [op |-> op, out |-> r]
  /\ store' = r.store
  /\ UNCHANGED clock

ScanCreate ==
  \E k \in ScanKeySet, owner \in {Alice, Bob} :
    Step("Create", CreateAsset(store, <<k, owner>>, clock))

ScanDelete == \E k \in ScanKeySet : Step("Delete", DeleteAsset(store, k))

\* the value under a key is replaced by a text that does not parse
Damage ==
  \E k \in DOMAIN store, n \in {1, Len(AssetFieldOrder)} :
    /\ Parses(store[k])
    /\ Step("Damage", Done(putState(store, k, BrokenOff(store[k], n))))

ScanListAll == Step("ListAll", GetAllAssets(store))

ScanNext == ScanCreate \/ ScanDelete \/ Damage \/ ScanListAll

ScanSpec == ScanInit /\ [][ScanNext]_vars

(***************************************************************************)
(* Serialization.  An Asset object has its own properties in the order     *)
(* they were assigned: the order of the class for a new Asset, another     *)
(* order for an object put together otherwise.  Here last holds an Asset   *)
(* with the order of its properties, and Put writes it with putAsset.      *)
(***************************************************************************)
\* keyOrder with the keys at positions i and j exchanged
Exchanged(keyOrder, i, j) ==
  [n \in 1..Len(keyOrder) |->
     IF n = i THEN keyOrder[j] ELSE IF n = j THEN keyOrder[i] ELSE keyOrder[n]]

\* the order of the class, and every order one exchange away from it
FieldOrders ==
  {Exchanged(AssetFieldOrder, i, j) : i, j \in 1..Len(AssetFieldOrder)}

\* a record as created, one with an owner, and one on loan
SampleAssets ==
  LET fresh == [NewAsset(ISBN_1) EXCEPT !.createdAt = ToISOString(0),
                                        !.updatedAt = ToISOString(0)]
  IN  {fresh,
       [fresh EXCEPT !.owner = Alice],
       [fresh EXCEPT !.owner = Alice, !.status = STATUS_LOANED, !.lendee = Bob,
                     !.updatedAt = ToISOString(1)]}

SerialInit ==
  /\ store = <<>>
  /\ clock = 0
  /\ \E keyOrder \in FieldOrders, asset \in SampleAssets :
       last = [op |-> "None", order |-> keyOrder, asset |-> asset]

Put ==
  /\ last.op = "None"
  /\ store' = putAssetAssigned(store, last.order, last.asset)
  /\ last' = [last EXCEPT !.op = "Put"]
  /\ UNCHANGED clock

SerialNext == Put

SerialSpec == SerialInit /\ [][SerialNext]_vars

(***************************************************************************)
(* Identifier parsing.  Here last holds a string put together from white   *)
(* space, a type, a separator and a value, and Parse applies               *)
(* parseIdentifier to it; out.ok = FALSE stands for the Error it throws.   *)
(* Resolve applies metadataHandler to a parsed identifier; ref is the      *)
(* string it returns.                                                      *)
(***************************************************************************)
Pads == {<<>>, <<" ">>}

TypeParts == {<<"I", "S", "B", "N">>, <<"O", "L", "I", "D">>, TYPE_DOI,
              <<"i", "s", "b", "n">>, <<"X">>, <<>>}

SeparatorParts == {IdentifierPrefix, <<":">>, <<>>}

ValueParts == {<<"1">>, <<"a", "/", "b">>, <<"1", "\n", "2">>, <<>>}

IdentifierStrings ==
  {p1 \o t \o s \o p2 \o v \o p3 :
     p1 \in Pads, t \in TypeParts, s \in SeparatorParts, p2 \in Pads, v \in ValueParts,
     p3 \in Pads}

ParseInit ==
  /\ store = <<>>
  /\ clock = 0
  /\ \E s \in IdentifierStrings :
       last = [op |-> "None", input |-> s, out |-> [ok |-> FALSE, type |-> <<>>, value |-> <<>>]]

Parse ==
  /\ last.op = "None"
  /\ last' = [last EXCEPT !.op = "Parse", !.out = parseIdentifier(last.input)]
  /\ UNCHANGED <<store, clock>>

\* metadataHandler on the identifier that parseIdentifier has returned
Resolve ==
  /\ last.op = "Parse"
  /\ last.out.ok
  /\ last' = [op |-> "Resolve", input |-> last.input, out |-> last.out,
              ref |-> metadataHandlers(last.out.type, last.out.value)]
  /\ UNCHANGED <<store, clock>>

ParseNext == Parse \/ Resolve

ParseSpec == ParseInit /\ [][ParseNext]_vars

(***************************************************************************)
(* The setters of Asset.  Here last holds an Asset and, once a setter has  *)
(* been called on it, the call and its outcome [err, asset].               *)
(***************************************************************************)
MimePdf == <<"a", "p", "p", "l", "i", "c", "a", "t", "i", "o", "n", "/", "p", "d", "f">>

Words == {Alice, <<" ">> \o Alice \o <<" ">>, <<" ">>, <<>>}

Times == {CallerTime, ToISOString(1), <<"s", "o", "o", "n">>, <<>>}

\* the argument lists a setter is called with
SetterArgs(name) ==
  CASE name = "setStatus" ->
         {<<s>> : s \in {STATUS_OPEN, STATUS_LOANED, STATUS_LOCKED, <<"l", "o", "s", "t">>, <<>>}}
    [] name \in {"setCreatedAt", "setUpdatedAt", "setLicenseEndsAt"} -> {<<t>> : t \in Times}
    [] name = "setFile" ->
         {<<l, n>> : l \in {Location, <<" ">>, <<>>},
                     n \in {PdfName, MimePdf, ExeName, <<" ">>, <<>>}}
    [] OTHER -> {<<w>> : w \in Words}

SetterNames ==
  {"setOwner", "setLendee", "setMetadata", "setStatus", "setCreatedAt", "setUpdatedAt",
   "setLicenseEndsAt", "setFile"}

CallSetter(name, asset, args) ==
  CASE name = "setOwner" -> setOwner(asset, args[1])
    [] name = "setLendee" -> setLendee(asset, args[1])
    [] name = "setMetadata" -> setMetadata(asset, args[1])
    [] name = "setStatus" -> setStatus(asset, args[1])
    [] name = "setCreatedAt" -> setCreatedAt(asset, args[1])
    [] name = "setUpdatedAt" -> setUpdatedAt(asset, args[1])
    [] name = "setLicenseEndsAt" -> setLicenseEndsAt(asset, args[1])
    [] name = "setFile" -> setFile(asset, args[1], args[2])

SetterInit ==
  /\ store = <<>>
  /\ clock = 0
  /\ \E asset \in SampleAssets :
       last = [op |-> "None", args |-> <<>>, before |-> asset, out |-> Ok(asset)]

ApplySetter ==
  /\ last.op = "None"
  /\ \E name \in SetterNames :
       \E args \in SetterArgs(name) :
         last' = [op |-> name, args |-> args, before |-> last.before,
                  out |-> CallSetter(name, last.before, args)]
  /\ UNCHANGED <<store, clock>>

SetterNext == ApplySetter

SetterSpec == SetterInit /\ [][SetterNext]_vars

(***************************************************************************)
(* The ledger of one record with its file, licence and metadata.  The      *)
(* invocations are those on the key ISBN_1, Create with a file location    *)
(* and Update with the payloads of FramePayloads among them; last holds    *)
(* the invocation made last: its operation, arguments and error kind.      *)
(***************************************************************************)
\* an owner that is omitted, empty, white space or a name; a status; a file
\* location alone, with an accepted file name and with one that is not
RecordCreateArgs ==
  {<<ISBN_1>>, <<ISBN_1, <<>>>>, <<ISBN_1, <<" ">>>>, <<ISBN_1, Bob, STATUS_LOCKED>>,
   <<ISBN_1, Alice, STATUS_OPEN, Location>>,
   <<ISBN_1, Alice, STATUS_OPEN, Location, PdfName>>,
   <<ISBN_1, Alice, STATUS_OPEN, Location, ExeName>>,
   <<ISBN_1, Alice, <<"l", "o", "s", "t">>, Location>>}

RecordPayloads ==
  FramePayloads
  \cup {[kind |-> "object", obj |-> o] :
          o \in {[owner |-> JString(Bob)], [owner |-> JString(<<" ">>)],
                 [owner |-> JString(<<>>)], [status |-> JString(STATUS_OPEN)],
                 [status |-> JString(STATUS_LOCKED)]}}

RecordInit ==
  /\ store = <<>>
  /\ clock = 0
  /\ last = [op |-> "None", args |-> <<>>, err |-> "OK"]

\* an invocation with outcome r: what it wrote is committed unless it threw
Call(op, args, r) ==
  /\ last' = [op |-> op, args |-> args, err |-> r.err]
  /\ store' = r.store
  /\ UNCHANGED clock

RecordCreate ==
  \E args \in RecordCreateArgs : Call("Create", args, CreateAsset(store, args, clock))

RecordUpdate ==
  \E updates \in RecordPayloads :
    Call("Update", <<ISBN_1, updates>>, UpdateAsset(store, ISBN_1, updates, clock))

RecordLend == Call("Lend", <<ISBN_1, Bob>>, LendAsset(store, ISBN_1, Bob, clock))

RecordReturn == Call("Return", <<ISBN_1>>, ReturnAsset(store, ISBN_1, clock))

RecordDelete == Call("Delete", <<ISBN_1>>, DeleteAsset(store, ISBN_1))

RecordNext ==
  Advance \/ RecordCreate \/ RecordUpdate \/ RecordLend \/ RecordReturn \/ RecordDelete

RecordSpec == RecordInit /\ [][RecordNext]_vars

(***************************************************************************)
(* Invocations in flight.  The ledger platform simulates an invocation     *)
(* against the committed State Store, recording the version of every key   *)
(* it reads and the values it writes, and commits it later, in any order,  *)
(* unless a key of its read set has been written or deleted by a commit    *)
(* since.  Here last holds the version of every key (the number of commits *)
(* that wrote it), the simulated invocations that wait for their commit,   *)
(* those committed so far, and the invocation of the step made last.       *)
(***************************************************************************)
\* simulated invocations waiting for their commit at one time, at most
MaxPending == 2
\* commits in one run of the ledger, at most
MaxCommits == 3

\* Create taken for an operation that does not look the key up
ReadKeys_BlindCreate(op, args) ==
  CASE op \in {"Update", "Lend", "Return", "Delete"} -> {args[1]}
    [] OTHER -> {}

\* the keys an invocation calls getState on (directly or in AssetExists)
\* before it returns or throws
ReadKeys(op, args) ==
  CASE op = "Create" -> IF isSupportedIdentifier(args[1]) /\ args[1] # <<>> THEN {args[1]} ELSE {}
    [] op = "Update" ->
         IF requireNonEmpty(args[1]) /\ args[2].kind # "blank" THEN {args[1]} ELSE {}
    [] op = "Lend" -> IF requireNonEmpty(args[1]) /\ requireNonEmpty(args[2]) THEN {args[1]} ELSE {}
    [] op \in {"Return", "Delete", "Read"} -> IF requireNonEmpty(args[1]) THEN {args[1]} ELSE {}
    [] op = "Exists" -> IF args[1] # <<>> THEN {args[1]} ELSE {}
    [] OTHER -> {}

\* the keys an invocation with outcome r calls putState or deleteState on
WriteKeys(op, args, r) ==
  IF r.err = "OK" /\ op \in {"Create", "Update", "Lend", "Return", "Delete"}
  THEN {args[1]}
  ELSE {}

ConcurrentKeys == {ISBN_1}

Carol == <<"C", "a", "r", "o", "l">>

\* the invocations submitted: operation and arguments
ConcurrentCalls ==
  {<<"Create", <<ISBN_1, Alice>>>>, <<"Lend", <<ISBN_1, Bob>>>>,
   <<"Lend", <<ISBN_1, Carol>>>>, <<"Return", <<ISBN_1>>>>, <<"Delete", <<ISBN_1>>>>,
   <<"Update", <<ISBN_1, [kind |-> "object", obj |-> [status |-> JString(STATUS_LOCKED)]]>>>>}

\* the simulation of an invocation against st: read set with versions, write
\* set with values (the empty value for a deleted key)
Simulation(op, args, st, version, t) ==
  LET r == Execute(op, args, st, t)
  IN  [op |-> op, args |-> args, err |-> r.err,
       reads |-> [k \in ReadKeys(op, args) |-> version[k]],
       writes |-> [k \in WriteKeys(op, args, r) |-> getState(r.store, k)]]

\* the committed store with the write set of tx applied
Applied(st, tx) ==
  [k \in {j \in DOMAIN st \cup DOMAIN tx.writes :
            j \in DOMAIN tx.writes => tx.writes[j] # <<>>} |->
     IF k \in DOMAIN tx.writes THEN tx.writes[k] ELSE st[k]]

\* no key that tx read has been written or deleted since
ReadSetValid(tx, version) == \A k \in DOMAIN tx.reads : version[k] = tx.reads[k]

Without(seq, i) == SubSeq(seq, 1, i - 1) \o SubSeq(seq, i + 1, Len(seq))

ConcurrentInit ==
  /\ store = <<>>
  /\ clock = 0
  /\ last = [op |-> "None", tx |-> <<>>, version |-> [k \in ConcurrentKeys |-> 0],
             pending |-> <<>>, done |-> <<>>]

\* an invocation is simulated; one that throws is returned to its caller and
\* is not submitted for commit
Endorse ==
  /\ Len(last.pending) < MaxPending
  /\ \E call \in ConcurrentCalls :
       \E tx \in {Simulation(call[1], call[2], store, last.version, clock)} :
         /\ tx.err = "OK"
         /\ last' = [last EXCEPT !.op = "Endorse", !.tx = tx, !.pending = Append(@, tx)]
  /\ UNCHANGED <<store, clock>>

\* a waiting invocation whose read set is still valid is committed
CommitValid ==
  /\ Len(last.done) < MaxCommits
  /\ \E i \in 1..Len(last.pending) :
       LET tx == last.pending[i]
       IN  /\ ReadSetValid(tx, last.version)
           /\ store' = Applied(store, tx)
           /\ last' = [op |-> "Commit", tx |-> tx,
                       version |-> [k \in ConcurrentKeys |->
                                      IF k \in DOMAIN tx.writes
                                      THEN last.version[k] + 1
                                      ELSE last.version[k]],
                       pending |-> Without(last.pending, i),
                       done |-> Append(last.done, tx)]
  /\ UNCHANGED clock

\* a waiting invocation whose read set is no longer valid is rejected
Invalidate ==
  /\ \E i \in 1..Len(last.pending) :
       LET tx == last.pending[i]
       IN  /\ ~ReadSetValid(tx, last.version)
           /\ last' = [last EXCEPT !.op = "Invalidate", !.tx = tx,
                                   !.pending = Without(last.pending, i)]
  /\ UNCHANGED <<store, clock>>

ConcurrentNext == Endorse \/ CommitValid \/ Invalidate

ConcurrentSpec == ConcurrentInit /\ [][ConcurrentNext]_vars

(***************************************************************************)
(* The file extension check.  Here last holds a string put together from   *)
(* the parts of a file name (a stem, up to two extensions, a query string) *)
(* or of a MIME type (type, subtype, suffix, parameters), with white space *)
(* around it, and CheckExtension applies isAcceptedFileExtension to it.    *)
(***************************************************************************)
Extensions ==
  {<<"p", "d", "f">>, <<"P", "D", "F">>, <<"e", "p", "u", "b">>, <<"t", "x", "t">>,
   <<"j", "s", "o", "n">>, <<"j", "p", "g">>, <<"j", "p", "e", "g">>, <<"p", "n", "g">>,
   <<"e", "x", "e">>, <<"p", "d">>, <<>>}

\* query strings, with the extension that ends them, if any
QueryParts ==
  {[text |-> <<>>, ext |-> <<>>],
   [text |-> <<"?", "d", "l", "=", "1">>, ext |-> <<>>],
   [text |-> <<"?", "x", "=", ".", "e", "x", "e">>, ext |-> <<"e", "x", "e">>],
   [text |-> <<"?", "x", "=", ".", "p", "d", "f">>, ext |-> <<"p", "d", "f">>]}

\* "." and the extension, or nothing
Dotted(ext) == IF ext = <<>> THEN <<>> ELSE <<".">> \o ext

FileNames ==
  {[kind |-> "name", first |-> e1, ext |-> e2, queried |-> q.text # <<>>, query |-> q.ext,
    subtype |-> <<>>,
    text |-> p1 \o stem \o Dotted(e1) \o Dotted(e2) \o q.text \o p2] :
     p1 \in Pads, stem \in {<<"b">>, <<>>},
     e1 \in {<<>>, <<"p", "d", "f">>, <<"e", "x", "e">>}, e2 \in Extensions,
     q \in QueryParts, p2 \in Pads}

MimeTypes ==
  {[kind |-> "mime", first |-> <<>>, ext |-> <<>>, queried |-> FALSE, query |-> <<>>,
    subtype |-> subtype,
    text |-> p1 \o type \o <<"/">> \o subtype \o suffix \o params \o p2] :
     p1 \in Pads, type \in {<<"a", "p", "p">>, <<"i", "m", "a", "g", "e">>},
     subtype \in (Extensions \ {<<>>}) \cup {<<"p", "l", "a", "i", "n">>},
     suffix \in {<<>>, <<"+", "z", "i", "p">>}, params \in {<<>>, <<";", "q", "=", "1">>},
     p2 \in Pads}

ExtensionInit ==
  /\ store = <<>>
  /\ clock = 0
  /\ \E given \in FileNames \cup MimeTypes : last = [op |-> "None", given |-> given, out |-> FALSE]

CheckExtension ==
  /\ last.op = "None"
  /\ last' = [last EXCEPT !.op = "Check", !.out = isAcceptedFileExtension(last.given.text)]
  /\ UNCHANGED <<store, clock>>

ExtensionNext == CheckExtension

ExtensionSpec == ExtensionInit /\ [][ExtensionNext]_vars

(***************************************************************************)
(* Properties.  A property of a transaction is stated on its outcome in    *)
(* every reachable ledger state, for every input of the sets above, at the *)
(* transaction time the ledger supplies in that state.                     *)
(***************************************************************************)
\* the record stored under a key
Record(st, key) == JSONParse(st[key])

Keys == DOMAIN store

Now == getLedgerTimestampISO(clock)

\* st2 differs from st1 at most in the value under key
OnlyKeyChanged(st1, st2, key) ==
  /\ DOMAIN st2 = DOMAIN st1
  /\ \A k \in DOMAIN st1 : k # key => st2[k] = st1[k]

\* C1: an operation (Create, Update, Lend, Return, Delete) that fails leaves the
\* State Store exactly as it was: no key added, removed or rewritten.
C1_FailureWritesNothing ==
  /\ \A args \in CreateArgs :
       LET r == CreateAsset(store, args, clock) IN r.err # "OK" => r.store = store
  /\ \A identifier \in IdentifierArgs, updates \in Payloads :
       LET r == UpdateAsset(store, identifier, updates, clock)
       IN  r.err # "OK" => r.store = store
  /\ \A identifier \in IdentifierArgs, lendee \in LendeeArgs :
       LET r == LendAsset(store, identifier, lendee, clock)
       IN  r.err # "OK" => r.store = store
  /\ \A identifier \in IdentifierArgs :
       LET r == ReturnAsset(store, identifier, clock) IN r.err # "OK" => r.store = store
  /\ \A identifier \in IdentifierArgs :
       LET r == DeleteAsset(store, identifier) IN r.err # "OK" => r.store = store

\* C1 witness: a ledger holding both keys after a committed Update, on which an
\* Update fails at its second field after the first one was applied in memory
C1_Witness ==
  /\ last = "Update"
  /\ Keys = {ISBN_1, DOI_ab}
  /\ Record(store, ISBN_1).owner = DEFAULT_OWNER
  /\ UpdateAsset(store, ISBN_1,
                 [kind |-> "object",
                  obj |-> [owner |-> JString(Alice),
                           status |-> JString(<<"l", "o", "s", "t">>)]],
                 clock).err = "InvalidStatus"

\* C2 (as claimed): every stored record whose status is "loaned" has a lendee
\* that is present and different from "none".
C2_LoanedHasLendee ==
  \A k \in Keys :
    Record(store, k).status = STATUS_LOANED =>
      /\ "lendee" \in DOMAIN Record(store, k)
      /\ Record(store, k).lendee # NONE

\* C3 (as claimed): no stored record has lendee equal to its owner.
C3_LendeeIsNotOwner == \A k \in Keys : Record(store, k).lendee # Record(store, k).owner

\* C4 (as claimed): every stored record whose status is not "loaned" has lendee
\* equal to "none".
C4_NotLoanedHasNoLendee ==
  \A k \in Keys : Record(store, k).status # STATUS_LOANED => Record(store, k).lendee = NONE

\* C5 (as claimed): Lend on an existing record whose status is not "open" fails
\* with NotAvailable, whatever the lendee, and changes nothing.
C5_NotOpenIsNotAvailable ==
  \A identifier \in Keys, lendee \in LendeeArgs :
    Record(store, identifier).status # STATUS_OPEN =>
      LendAsset(store, identifier, lendee, clock) = Fail("NotAvailable", store)

\* C5 (amended): Lend with a lendee that is not empty or white space, on an
\* existing record whose status is not "open", fails with NotAvailable and
\* changes nothing; with an empty lendee it fails too, and changes nothing.
C5_NotOpenIsNotAvailableForNonEmptyLendee ==
  \A identifier \in Keys, lendee \in LendeeArgs :
    Record(store, identifier).status # STATUS_OPEN =>
      LET r == LendAsset(store, identifier, lendee, clock)
      IN  /\ r.store = store
          /\ r.err # "OK"
          /\ Trim(lendee) # <<>> => r.err = "NotAvailable"

\* C5 witness: a locked record and a loaned record, each refused to a borrower
C5_Witness ==
  /\ Keys = {ISBN_1, DOI_ab}
  /\ Record(store, ISBN_1).status = STATUS_LOCKED
  /\ Record(store, DOI_ab).status = STATUS_LOANED
  /\ LendAsset(store, ISBN_1, Bob, clock).err = "NotAvailable"
  /\ LendAsset(store, DOI_ab, Bob, clock).err = "NotAvailable"

\* C6 (as claimed): Lend on an existing open record fails with InvalidLendee,
\* writing nothing, when lendee is "none" or the record's owner.
C6_InvalidLendeeRefused ==
  \A identifier \in Keys, lendee \in LendeeArgs :
    (/\ Record(store, identifier).status = STATUS_OPEN
     /\ (lendee = NONE \/ lendee = Record(store, identifier).owner))
    => LendAsset(store, identifier, lendee, clock) = Fail("InvalidLendee", store)

\* the record Lend is to write over old: status, lendee and updatedAt set
Lent(old, lendee) ==
  [old EXCEPT !.status = STATUS_LOANED, !.lendee = lendee, !.updatedAt = Now]

\* C7 (as claimed): a successful Lend on an open record writes status "loaned",
\* lendee equal to the given lendee and updatedAt equal to now; the other fields
\* of the record and the other keys of the store are as before.
C7_LendWritesGivenLendee ==
  \A identifier \in Keys, lendee \in LendeeArgs :
    LET r == LendAsset(store, identifier, lendee, clock)
    IN  Record(store, identifier).status = STATUS_OPEN /\ r.err = "OK" =>
          /\ Record(r.store, identifier) = Lent(Record(store, identifier), lendee)
          /\ OnlyKeyChanged(store, r.store, identifier)

\* C7 (amended): a successful Lend on an open record writes status "loaned",
\* lendee equal to the given lendee with the white space around it removed and
\* updatedAt equal to now; the other fields of the record and the other keys of
\* the store are as before.
C7_LendWritesTrimmedLendee ==
  \A identifier \in Keys, lendee \in LendeeArgs :
    LET r == LendAsset(store, identifier, lendee, clock)
    IN  Record(store, identifier).status = STATUS_OPEN /\ r.err = "OK" =>
          /\ Record(r.store, identifier) = Lent(Record(store, identifier), Trim(lendee))
          /\ OnlyKeyChanged(store, r.store, identifier)

\* C7 witness: Lend has just been committed on ISBN_1, later than its creation,
\* beside the other key
C7_Witness ==
  /\ last = "Lend"
  /\ Keys = {ISBN_1, DOI_ab}
  /\ Record(store, ISBN_1).status = STATUS_LOANED
  /\ Record(store, ISBN_1).lendee = Bob
  /\ Record(store, ISBN_1).updatedAt = Now
  /\ Record(store, ISBN_1).createdAt # Now

\* C8: Return on an existing record fails with NotLoaned, changing nothing,
\* unless its status is "loaned"; on a loaned record it writes status "open",
\* lendee "none" and updatedAt equal to now, and leaves the other fields of the
\* record and the other keys of the store as they were.
C8_ReturnOnlyLoaned ==
  \A identifier \in Keys :
    LET r == ReturnAsset(store, identifier, clock)
        old == Record(store, identifier)
    IN  IF old.status # STATUS_LOANED
        THEN r = Fail("NotLoaned", store)
        ELSE /\ r.err = "OK"
             /\ Record(r.store, identifier) =
                  [old EXCEPT !.status = STATUS_OPEN, !.lendee = NONE, !.updatedAt = Now]
             /\ OnlyKeyChanged(store, r.store, identifier)

\* C8 witness: Return has just been committed on ISBN_1, later than the Lend,
\* and is now refused on it and on the other key
C8_Witness ==
  /\ last = "Return"
  /\ Keys = {ISBN_1, DOI_ab}
  /\ Record(store, ISBN_1).status = STATUS_OPEN
  /\ Record(store, ISBN_1).lendee = NONE
  /\ Record(store, ISBN_1).updatedAt = Now
  /\ Record(store, ISBN_1).createdAt # Now
  /\ ReturnAsset(store, ISBN_1, clock).err = "NotLoaned"
  /\ ReturnAsset(store, DOI_ab, clock).err = "NotLoaned"

\* C9 (as claimed): for an open record and a lendee for which Lend succeeds,
\* Lend followed by Return yields a record with status "open" and lendee "none"
\* whose fields other than updatedAt equal their values before the Lend.
C9_LendThenReturnRestores ==
  \A identifier \in Keys, lendee \in LendeeArgs :
    LET old == Record(store, identifier)
        lent == LendAsset(store, identifier, lendee, clock)
        back == ReturnAsset(lent.store, identifier, clock)
    IN  old.status = STATUS_OPEN /\ lent.err = "OK" =>
          /\ back.err = "OK"
          /\ Record(back.store, identifier).status = STATUS_OPEN
          /\ Record(back.store, identifier).lendee = NONE
          /\ \A f \in DOMAIN old \ {"updatedAt"} : Record(back.store, identifier)[f] = old[f]

\* C10 (as claimed): Update fails with LendeeRequired, writing nothing, whenever
\* the record that results has status "loaned" and a lendee that is absent or
\* "none"; in particular with the payload {status: "loaned"} on a record whose
\* lendee is "none".
C10_UpdateRequiresLendee ==
  \A identifier \in Keys, updates \in Payloads :
    LET r == UpdateAsset(store, identifier, updates, clock)
    IN  /\ r.err = "OK" =>
             ~(/\ Record(r.store, identifier).status = STATUS_LOANED
               /\ Record(r.store, identifier).lendee = NONE)
        /\ (/\ updates.kind = "object"
            /\ DOMAIN updates.obj = {"status"}
            /\ updates.obj["status"] = JString(STATUS_LOANED)
            /\ Record(store, identifier).lendee = NONE)
           => r = Fail("LendeeRequired", store)

\* C11: Create on an identifier whose key is present in the store fails with
\* AlreadyExists, whatever the other arguments are, and leaves the store (the
\* existing record included) as it was.
C11_CreateExistingFails ==
  \A args \in CreateArgsWithFile :
    args[1] \in Keys => CreateAsset(store, args, clock) = Fail("AlreadyExists", store)

\* C11 witness: both keys present, ISBN_1 on loan, and Create refused on each key
\* with an unknown status and with a file location that has no file name
C11_Witness ==
  /\ Keys = {ISBN_1, DOI_ab}
  /\ Record(store, ISBN_1).status = STATUS_LOANED
  /\ CreateAsset(store, <<ISBN_1, Alice, <<"l", "o", "s", "t">>>>, clock).err = "AlreadyExists"
  /\ CreateAsset(store, <<DOI_ab, Alice, STATUS_OPEN, Location>>, clock).err = "AlreadyExists"

\* the store after a Delete that removed identifier and nothing else, on which
\* Exists(identifier) is false and Read(identifier) fails with NotFound
Removed(st, identifier) ==
  /\ DOMAIN st = Keys \ {identifier}
  /\ \A k \in DOMAIN st : st[k] = store[k]
  /\ ~AssetExists(st, identifier)
  /\ ReadAsset(st, identifier).err = "NotFound"

\* C12 (as claimed): Delete fails with NotFound when the key is absent and
\* changes nothing; when the key is present it removes that key whatever the
\* status, leaves every other key unchanged, and afterwards Exists is false and
\* Read fails with NotFound.
C12_DeleteRemovesKey ==
  \A identifier \in IdentifierArgs :
    LET r == DeleteAsset(store, identifier)
    IN  IF identifier \notin Keys
        THEN r = Fail("NotFound", store)
        ELSE r.err = "OK" /\ Removed(r.store, identifier)

\* C12 (amended): Delete with an identifier that is not empty or white space
\* fails with NotFound when the key is absent; with an empty identifier it fails
\* too; a failing Delete changes nothing.  When the key is present Delete
\* removes that key whatever the status, leaves every other key unchanged, and
\* afterwards Exists is false and Read fails with NotFound.
C12_DeleteRemovesKeyOfNonEmptyIdentifier ==
  \A identifier \in IdentifierArgs :
    LET r == DeleteAsset(store, identifier)
    IN  IF identifier \notin Keys
        THEN /\ r.store = store
             /\ r.err # "OK"
             /\ Trim(identifier) # <<>> => r.err = "NotFound"
        ELSE r.err = "OK" /\ Removed(r.store, identifier)

\* C12 witness: Delete has just removed ISBN_1 and is now refused on it, while
\* the loaned record under the other key can be deleted
C12_Witness ==
  /\ last = "Delete"
  /\ Keys = {DOI_ab}
  /\ Record(store, DOI_ab).status = STATUS_LOANED
  /\ DeleteAsset(store, ISBN_1).err = "NotFound"
  /\ DeleteAsset(store, DOI_ab).err = "OK"

\* the record Read returns after Create(identifier, owner) at the current time
Created(identifier, owner) ==
  [identifier |-> identifier,
   metadata |-> metadataHandler(identifier).value,
   owner |-> owner,
   lendee |-> NONE,
   createdAt |-> Now,
   updatedAt |-> Now,
   status |-> STATUS_OPEN]

\* the fields of rec that Created names have the values it gives
Shows(rec, expected) == \A f \in DOMAIN expected : rec[f] = expected[f]

\* C13 (as claimed): after a successful Create(identifier, owner) with a
\* supported identifier, a non-empty owner and no status argument, Read returns
\* a record with that identifier and owner, status "open", lendee "none",
\* metadata resolve(identifier) and createdAt = updatedAt = now.
C13_CreateThenRead ==
  \A identifier \in IdentifierArgs, owner \in OwnerArgs :
    LET r == CreateAsset(store, <<identifier, owner>>, clock)
        read == ReadAsset(r.store, identifier)
    IN  isSupportedIdentifier(identifier) /\ owner # <<>> /\ r.err = "OK" =>
          /\ read.err = "OK"
          /\ Shows(JSONParse(read.value), Created(identifier, owner))

\* C13 (amended): as C13, with the owner of the record equal to the given owner
\* with the white space around it removed, and equal to the default owner when
\* the given owner is white space only.
C13_CreateThenReadTrimmedOwner ==
  \A identifier \in IdentifierArgs, owner \in OwnerArgs :
    LET r == CreateAsset(store, <<identifier, owner>>, clock)
        read == ReadAsset(r.store, identifier)
        stored == IF Trim(owner) = <<>> THEN DEFAULT_OWNER ELSE Trim(owner)
    IN  isSupportedIdentifier(identifier) /\ owner # <<>> /\ r.err = "OK" =>
          /\ read.err = "OK"
          /\ Shows(JSONParse(read.value), Created(identifier, stored))

\* C13 witness: Create has just been committed for ISBN_1, after the ledger time
\* has advanced, and Read returns the record described
C13_Witness ==
  /\ last = "Create"
  /\ clock > 0
  /\ Keys = {ISBN_1}
  /\ metadataHandler(ISBN_1).ok
  /\ ReadAsset(store, ISBN_1).err = "OK"
  /\ Shows(JSONParse(ReadAsset(store, ISBN_1).value), Created(ISBN_1, Alice))

\* C14 (as claimed): the record written by a successful Create has status
\* "open", whatever status argument was given.
C14_CreatedOpen ==
  \A args \in CreateArgs :
    LET r == CreateAsset(store, args, clock)
    IN  r.err = "OK" => Record(r.store, args[1]).status = STATUS_OPEN

\* the status changes of the state machine of the specification
StatusChanges ==
  {<<STATUS_OPEN, STATUS_LOANED>>, <<STATUS_LOANED, STATUS_OPEN>>,
   <<STATUS_OPEN, STATUS_LOCKED>>, <<STATUS_LOCKED, STATUS_OPEN>>}

\* C15 (as claimed): between consecutive stored values of a key that stays in
\* the store, the status stays or changes open->loaned, loaned->open,
\* open->locked or locked->open, and the lendee of a record that stays loaned is
\* not replaced.
C15_StatusTransitions ==
  [][\A k \in DOMAIN store \cap DOMAIN store' :
       LET old == Record(store, k)
           new == Record(store', k)
       IN  /\ old.status # new.status => <<old.status, new.status>> \in StatusChanges
           /\ old.status = STATUS_LOANED /\ new.status = STATUS_LOANED =>
                new.lendee = old.lendee]_vars

LedgerTimes == {ToISOString(t) : t \in 0..clock}

\* the keys whose value the step writes: new in the store, or rewritten
Written == {k \in DOMAIN store' : k \notin DOMAIN store \/ store'[k] # store[k]}

\* C17: every createdAt and updatedAt written by Create, Update, Lend or Return
\* is the ISO-8601 rendering of a transaction timestamp the ledger supplied:
\* updatedAt, and createdAt of a new record, that of this invocation, createdAt
\* of a record that was there one of the ledger's; a timestamp in the caller's
\* update payload is never written.
C17_TimestampsFromLedger ==
  [][\A k \in Written :
       LET new == Record(store', k)
       IN  /\ new.updatedAt = ToISOString(clock)
           /\ new.createdAt \in LedgerTimes
           /\ k \notin DOMAIN store => new.createdAt = ToISOString(clock)
           /\ CallerTime \notin {new.createdAt, new.updatedAt}]_vars

\* C17 witness: an Update committed later than the Create of the record, and an
\* Update whose payload carries timestamps of the caller's is accepted
C17_Witness ==
  /\ last = "Update"
  /\ clock > 0
  /\ ISBN_1 \in Keys
  /\ Record(store, ISBN_1).createdAt = ToISOString(0)
  /\ Record(store, ISBN_1).updatedAt = ToISOString(clock)
  /\ UpdateAsset(store, ISBN_1,
                 [kind |-> "object",
                  obj |-> [createdAt |-> JString(CallerTime),
                           updatedAt |-> JString(CallerTime)]],
                 clock).err = "OK"

\* C18: a record that stays in the store keeps its createdAt across every
\* committed Update, Lend and Return, and every committed Update, Lend or
\* Return leaves its record with updatedAt set to the now of the invocation,
\* also when the Update payload touches no field.
C18_CreatedOnceUpdatedAlways ==
  [][/\ \A k \in Written \cap DOMAIN store :
          /\ Record(store', k).createdAt = Record(store, k).createdAt
          /\ Record(store', k).updatedAt = Now
     /\ last' \in {"Update", "Lend", "Return"} /\ last' # last =>
          \E k \in DOMAIN store :
            /\ OnlyKeyChanged(store, store', k)
            /\ Record(store', k).updatedAt = Now]_vars

\* C18 witness: a record created at time 0 and updated later, on which an Update
\* with the empty object as payload succeeds
C18_Witness ==
  /\ clock > 0
  /\ ISBN_1 \in Keys
  /\ last \in {"Update", "Lend", "Return"}
  /\ Record(store, ISBN_1).createdAt = ToISOString(0)
  /\ Record(store, ISBN_1).updatedAt = Now
  /\ UpdateAsset(store, ISBN_1, [kind |-> "object", obj |-> <<>>], clock).err = "OK"

\* every record of st is stored under its own identifier
Filed(st) == \A k \in DOMAIN st : Record(st, k).identifier = k

\* C19: the record stored under key k has identifier k in every state a step
\* leads to, and Update, Lend and Return leave every record under its key,
\* whatever the payload (one with an "identifier" property included).
C19_IdentifierIsKey ==
  [][/\ Filed(store')
     /\ last' \in {"Update", "Lend", "Return"} => DOMAIN store' = DOMAIN store]_vars

\* C19 witness: both keys present after a committed Update, and an Update of
\* ISBN_1 whose payload names the other key as identifier is accepted
C19_Witness ==
  /\ last = "Update"
  /\ Keys = {ISBN_1, DOI_ab}
  /\ UpdateAsset(store, ISBN_1, [kind |-> "object", obj |-> [identifier |-> JString(DOI_ab)]],
                 clock).err = "OK"

\* Read, Exists and ListAll leave the store as it is, and Read of a key that is
\* present returns the value stored under it
Reads(identifier) ==
  /\ ReadAsset(store, identifier).store = store
  /\ AssetExists(store, identifier) \in BOOLEAN
  /\ GetAllAssets(store).store = store
  /\ identifier \in Keys => ReadAsset(store, identifier) = Reply(store[identifier], store)

\* C20 (as claimed): Read, Exists and ListAll never modify the store; Read
\* fails with NotFound when the key is absent and otherwise returns exactly the
\* value last written under that key.
C20_ReadReturnsStored ==
  \A identifier \in IdentifierArgs :
    /\ Reads(identifier)
    /\ identifier \notin Keys => ReadAsset(store, identifier).err = "NotFound"

\* C20 (amended): Read, Exists and ListAll never modify the store; Read with an
\* identifier that is not empty or white space fails with NotFound when the key
\* is absent, Read with an empty identifier fails too, and Read of a key that
\* is present returns exactly the value last written under it.
C20_ReadOfNonEmptyIdentifierReturnsStored ==
  \A identifier \in IdentifierArgs :
    /\ Reads(identifier)
    /\ identifier \notin Keys =>
         /\ ReadAsset(store, identifier).err # "OK"
         /\ Trim(identifier) # <<>> => ReadAsset(store, identifier).err = "NotFound"

\* C20 witness: ISBN_1 has just been lent; Read returns the record the Lend
\* wrote and fails on the other key, which is absent
C20_Witness ==
  /\ last = "Lend"
  /\ Keys = {ISBN_1}
  /\ JSONParse(ReadAsset(store, ISBN_1).value).lendee = Bob
  /\ JSONParse(ReadAsset(store, ISBN_1).value).updatedAt = Now
  /\ ReadAsset(store, DOI_ab).err = "NotFound"

\* identifiers as any caller may give them: the supported ones, the empty
\* string, white space, and a string that is no identifier
Blank == <<" ">>

NoIdentifier == <<"x">>

AnyIdentifierArgs == IdentifierArgs \cup {Blank, NoIdentifier}

\* C21: Exists answers for every string (its answer is a boolean): false for
\* the empty string, and for every other string true exactly when a value is
\* stored under that key.
C21_ExistsTotal ==
  \A identifier \in AnyIdentifierArgs :
    /\ AssetExists(store, identifier) \in BOOLEAN
    /\ identifier = <<>> => AssetExists(store, identifier) = FALSE
    /\ identifier # <<>> =>
         AssetExists(store, identifier) = (identifier \in Keys /\ store[identifier] # <<>>)

\* C21 witness: one key is present and the other is not; Exists tells them
\* apart and answers false for the empty string
C21_Witness ==
  /\ Keys = {ISBN_1}
  /\ AssetExists(store, ISBN_1)
  /\ ~AssetExists(store, DOI_ab)
  /\ ~AssetExists(store, <<>>)

\* C22: ListAll does not fail and leaves the store as it is; its reply has one
\* entry for every key whose value parses, equal to the parsed value, in key
\* order; a damaged value costs no other entry its place.
C22_ListAllSkipsDamaged ==
  last.op = "ListAll" =>
    LET sound == {k \in Keys : Parses(store[k])}
        out == last.out
    IN  /\ out.err = "OK"
        /\ out.store = store
        /\ Len(out.value) = Cardinality(sound)
        /\ \A k \in sound : \E i \in 1..Len(out.value) : out.value[i] = Record(store, k)
        /\ \A i, j \in 1..Len(out.value) :
             i < j => StringLess(out.value[i].identifier, out.value[j].identifier)

\* C22 witness: ListAll has run on a store whose middle key holds a damaged
\* value, and has replied with the records of the keys before and after it
C22_Witness ==
  /\ last.op = "ListAll"
  /\ Keys = ScanKeySet
  /\ Parses(store[DOI_ab]) /\ ~Parses(store[ISBN_1]) /\ Parses(store[ISBN_2])
  /\ Len(last.out.value) = 2
  /\ last.out.value[2].identifier = ISBN_2

\* C23: the bytes putAsset writes for a record are the same whatever the
\* order in which its fields were assigned: they are the bytes of the record
\* in the order of the class, their keys ascend, and they parse to the
\* field values of the record.
C23_SerializationIgnoresOrder ==
  last.op = "Put" =>
    LET bytes == store[last.asset.identifier]
    IN  /\ \A keyOrder \in FieldOrders : StringifyObject(keyOrder, last.asset) = bytes
        /\ bytes = Stringify(last.asset)
        /\ \A i, j \in 1..Len(bytes) :
             i < j => StringLess(Spell(bytes[i][1]), Spell(bytes[j][1]))
        /\ \A k \in DOMAIN last.asset : JSONParse(bytes)[k] = last.asset[k]

\* C23 witness: putAsset has written a record on loan whose properties were
\* assigned in another order than that of the class
C23_Witness ==
  /\ last.op = "Put"
  /\ last.order # AssetFieldOrder
  /\ last.order[1] = "updatedAt"
  /\ last.asset.lendee = Bob
  /\ ISBN_1 \in Keys

\* s is TYPE_value with a supported TYPE and a value that is not empty after
\* trimming, with white space around it at most
HasIdentifierForm(s) ==
  \E i \in 1..Len(IDENTIFIER_TYPES) :
    LET head == IDENTIFIER_TYPES[i] \o IdentifierPrefix
    IN  /\ StartsWith(Trim(s), head)
        /\ Trim(SubSeq(Trim(s), Len(head) + 1, Len(Trim(s)))) # <<>>

\* parseIdentifier fails on every string that has not the form of an identifier
RejectsOthers == ~HasIdentifierForm(last.input) => ~last.out.ok

\* C24 (as claimed): for a string s that parseIdentifier accepts,
\* parsedIdToString(parseIdentifier(s)) is s without its leading and trailing
\* white space; a string that has not the form of an identifier is rejected.
C24_RoundTripIsTrim ==
  last.op = "Parse" =>
    /\ last.out.ok => parsedIdToString(last.out) = Trim(last.input)
    /\ RejectsOthers

\* C24 (amended): for a string s that parseIdentifier accepts,
\* parsedIdToString(parseIdentifier(s)) is TYPE_value with the value trimmed:
\* s without its leading and trailing white space and without the white space
\* that follows the separator; it is the trimmed s when no white space follows
\* the separator.  A string that has not the form of an identifier is rejected.
C24_RoundTripIsCanonical ==
  last.op = "Parse" =>
    /\ last.out.ok =>
         LET trimmed == Trim(last.input)
             head == SubSeq(trimmed, 1, Len(last.out.type) + 1)
             rest == SubSeq(trimmed, Len(last.out.type) + 2, Len(trimmed))
         IN  /\ head = last.out.type \o IdentifierPrefix
             /\ parsedIdToString(last.out) = head \o TrimStart(rest)
             /\ ~IsSpace(rest[1]) => parsedIdToString(last.out) = trimmed
    /\ RejectsOthers

\* C24 witness: parseIdentifier has accepted a string with white space around
\* it and after the separator
C24_Witness ==
  /\ last.op = "Parse"
  /\ last.input = <<" ">> \o <<"I", "S", "B", "N", "_", " ", "1">> \o <<" ">>
  /\ last.out.ok
  /\ parsedIdToString(last.out) = ISBN_1

\* identifiers as any caller may give them, also with white space around them
CreateIdentifierArgs == AnyIdentifierArgs \cup {Blank \o ISBN_1 \o Blank}

\* C25: Create fails with UnsupportedIdentifier, leaving the store as it is,
\* exactly when parseIdentifier rejects the identifier, whatever the other
\* arguments; every key of the store, also after a Create, is a string that
\* parseIdentifier accepts.
C25_UnsupportedIdentifierRefused ==
  /\ \A k \in Keys : parseIdentifier(k).ok
  /\ \A identifier \in CreateIdentifierArgs :
       \A args \in {<<identifier>>, <<identifier, Alice, <<"l", "o", "s", "t">>>>} :
         LET r == CreateAsset(store, args, clock)
         IN  /\ r.err = "UnsupportedIdentifier" <=> ~parseIdentifier(identifier).ok
             /\ r.err = "UnsupportedIdentifier" => r.store = store
             /\ \A k \in DOMAIN r.store : parseIdentifier(k).ok

\* C25 witness: both keys were created; Create of a string that is no
\* identifier is refused, Create of an identifier with white space around it
\* is not
C25_Witness ==
  /\ last = "Create"
  /\ Keys = {ISBN_1, DOI_ab}
  /\ CreateAsset(store, <<NoIdentifier>>, clock).err = "UnsupportedIdentifier"
  /\ CreateAsset(store, <<Blank \o ISBN_1 \o Blank>>, clock).err = "OK"

\* the arguments of CreateAsset as the transaction sees them
StatusOf(args) == Arg(args, 3, STATUS_OPEN)

\* the status is one of open, loaned, locked
Recognized(status) == status \in {STATUS_OPEN, STATUS_LOANED, STATUS_LOCKED}

LocationWithoutName(args) == Arg(args, 4, <<>>) # <<>> /\ Arg(args, 5, <<>>) = <<>>

\* C26 (as claimed): Create fails with InvalidStatus when the status is not an
\* accepted one, and with MissingFileType when a file location is given
\* without a file name or MIME type; in both cases nothing is written.
C26_CreateRefusesStatusAndFile ==
  \A args \in CreateArgsWithFile :
    LET r == CreateAsset(store, args, clock)
    IN  /\ ~Recognized(StatusOf(args)) => r.err = "InvalidStatus" /\ r.store = store
        /\ LocationWithoutName(args) => r.err = "MissingFileType" /\ r.store = store

\* C26 (amended): Create with a status that is not accepted, or with a file
\* location and no file name, fails and writes nothing.  For an identifier
\* that is supported and has no record the error is MissingFileType when the
\* file name is missing, and InvalidStatus when the status is not accepted
\* and no file name is missing; otherwise the error is that of the identifier.
C26_CreateRefusesStatusAndFileOfNewAsset ==
  \A args \in CreateArgsWithFile :
    LET r == CreateAsset(store, args, clock)
        new == isSupportedIdentifier(args[1]) /\ ~AssetExists(store, args[1])
    IN  /\ ~Recognized(StatusOf(args)) \/ LocationWithoutName(args) =>
             /\ r.err # "OK"
             /\ r.store = store
             /\ ~new => r.err \in {"UnsupportedIdentifier", "AlreadyExists"}
        /\ new /\ LocationWithoutName(args) => r.err = "MissingFileType"
        /\ new /\ ~LocationWithoutName(args) /\ ~Recognized(StatusOf(args)) =>
             r.err = "InvalidStatus"

\* C26 witness: after a Create, one key is present and the other is not; Create
\* of the absent one is refused for its status and for its missing file name,
\* Create of the present one for being there
C26_Witness ==
  /\ last = "Create"
  /\ Keys = {DOI_ab}
  /\ CreateAsset(store, <<ISBN_1, Alice, <<"l", "o", "s", "t">>>>, clock).err = "InvalidStatus"
  /\ CreateAsset(store, <<ISBN_1, Alice, STATUS_OPEN, Location>>, clock).err = "MissingFileType"
  /\ CreateAsset(store, <<DOI_ab, Alice, <<"l", "o", "s", "t">>>>, clock).err = "AlreadyExists"

\* the identifiers a caller may give that have no record in the store
Absent == {identifier \in AnyIdentifierArgs : identifier \notin Keys}

\* C27 (as claimed): Read, Update, Lend, Return and Delete on an identifier
\* that has no record fail with NotFound, whatever the other arguments.
C27_AbsentIsNotFound ==
  \A identifier \in Absent :
    /\ ReadAsset(store, identifier).err = "NotFound"
    /\ \A updates \in Payloads : UpdateAsset(store, identifier, updates, clock).err = "NotFound"
    /\ \A lendee \in LendeeArgs : LendAsset(store, identifier, lendee, clock).err = "NotFound"
    /\ ReturnAsset(store, identifier, clock).err = "NotFound"
    /\ DeleteAsset(store, identifier).err = "NotFound"

\* r fails and writes nothing: with NotFound when every string argument is
\* given, with the error of the empty argument otherwise
Missing(r, given) ==
  /\ r.err = IF given THEN "NotFound" ELSE "EmptyField"
  /\ r.store = store

\* C27 (amended): Read, Update, Lend, Return and Delete on an identifier that
\* has no record fail and write nothing; the error is NotFound when the
\* identifier, the update payload and the lendee are not empty or white space
\* (a payload that is not JSON included), and the error of the empty argument
\* otherwise.
C27_AbsentIsNotFoundWhenArgumentsGiven ==
  \A identifier \in Absent :
    LET named == Trim(identifier) # <<>>
    IN  /\ Missing(ReadAsset(store, identifier), named)
        /\ \A updates \in Payloads :
             Missing(UpdateAsset(store, identifier, updates, clock),
                     named /\ updates.kind # "blank")
        /\ \A lendee \in LendeeArgs :
             Missing(LendAsset(store, identifier, lendee, clock),
                     named /\ Trim(lendee) # <<>>)
        /\ Missing(ReturnAsset(store, identifier, clock), named)
        /\ Missing(DeleteAsset(store, identifier), named)

\* C27 witness: the record of ISBN_1 has been deleted and another one is left;
\* Update of ISBN_1 with a payload that is not JSON finds no record, Update
\* with an empty payload and Lend with an empty lendee are refused before the
\* store is read
C27_Witness ==
  /\ last = "Delete"
  /\ Keys = {DOI_ab}
  /\ UpdateAsset(store, ISBN_1, [kind |-> "invalid", obj |-> <<>>], clock).err = "NotFound"
  /\ UpdateAsset(store, ISBN_1, [kind |-> "blank", obj |-> <<>>], clock).err = "EmptyField"
  /\ LendAsset(store, ISBN_1, <<>>, clock).err = "EmptyField"
  /\ LendAsset(store, ISBN_1, Bob, clock).err = "NotFound"

\* the record fields that an update payload can name
Updatable == {"owner", "status", "lendee", "licenseEndsAt", "fileLocation", "metadata"}

\* the value v that the payload gives for field f passes the validation of
\* the setter of f
PassesSetter(updateData, f) ==
  LET v == updateData[f]
      text == v.t = "string" /\ Trim(v.s) # <<>>
  IN  CASE f = "status" -> text /\ Recognized(v.s)
        [] f = "licenseEndsAt" -> text /\ validateISO(v.s)
        [] f = "fileLocation" ->
             /\ text
             /\ "fileMimeOrName" \in DOMAIN updateData
             /\ updateData["fileMimeOrName"].t = "string"
             /\ isAcceptedFileExtension(updateData["fileMimeOrName"].s)
        [] f = "metadata" -> (text \/ v.t = "object")
        [] OTHER -> text

\* payloads of the frame: one property of the record at most, the payloads
\* with foreign properties, and those of file, licence and metadata
FrameArgs ==
  {p \in Payloads : Cardinality(DOMAIN p.obj) <= 1}
  \cup {[kind |-> "object", obj |-> o] : o \in ForeignObjects}
  \cup FramePayloads

\* C28: a successful Update changes no other key, and of its record only the
\* fields the payload names among the updatable ones, and updatedAt; a named
\* field gets the value given (trimmed at most), which has passed the
\* validation of its setter; other properties of the payload have no effect.
C28_UpdateFrame ==
  \A identifier \in Keys, updates \in FrameArgs :
    LET r == UpdateAsset(store, identifier, updates, clock)
        old == Record(store, identifier)
        new == Record(r.store, identifier)
        named == DOMAIN updates.obj \cap Updatable
    IN  r.err = "OK" =>
          /\ OnlyKeyChanged(store, r.store, identifier)
          /\ DOMAIN new = DOMAIN old
          /\ \A f \in DOMAIN old \ (named \cup {"updatedAt"}) : new[f] = old[f]
          /\ \A f \in named :
               /\ PassesSetter(updates.obj, f)
               /\ new[f] \in {updates.obj[f].s, Trim(updates.obj[f].s)}

\* C28 witness: an Update has been committed on a record that has an owner
\* and is on loan, and an Update naming only licenseEndsAt, one naming only
\* the file and one naming only foreign properties are accepted
C28_Witness ==
  /\ last = "Update"
  /\ ISBN_1 \in Keys
  /\ Record(store, ISBN_1).owner = Alice
  /\ Record(store, ISBN_1).status = STATUS_LOANED
  /\ \A o \in {[licenseEndsAt |-> JString(CallerTime)],
               [fileLocation |-> JString(Location), fileMimeOrName |-> JString(PdfName)],
               [identifier |-> JString(DOI_ab)]} :
       UpdateAsset(store, ISBN_1, [kind |-> "object", obj |-> o], clock).err = "OK"

\* C29 (as claimed): Update of a stored record with a payload that is not
\* JSON, or is JSON but not an object (null, a number or a string, an array),
\* fails with MalformedInput and writes nothing.
C29_MalformedPayloadRefused ==
  \A identifier \in Keys :
    \A updates \in {p \in Payloads : p.kind \in {"invalid", "null", "primitive", "array"}} :
      LET r == UpdateAsset(store, identifier, updates, clock)
      IN  r.err = "MalformedInput" /\ r.store = store

\* the record differs from the one before the call in the field f at most
OnlyFieldChanged(f) ==
  \A g \in DOMAIN last.before : g # f => last.out.asset[g] = last.before[g]

\* C30: a setter that rejects its argument leaves every field of the record
\* as it was.  setFile fails with EmptyField when the location or the file
\* name is empty or white space, with UnsupportedFileType when the file name
\* is not an accepted one, and otherwise stores the location, changing no
\* other field (the file name is not stored).
C30_SettersAtomic ==
  /\ last.out.err # "OK" => last.out.asset = last.before
  /\ last.op = "setFile" =>
       LET location == last.args[1]
           name == last.args[2]
       IN  last.out.err =
             (IF Trim(location) = <<>> \/ Trim(name) = <<>> THEN "EmptyField"
              ELSE IF name \notin {PdfName, MimePdf} THEN "UnsupportedFileType"
              ELSE "OK")
  /\ last.op = "setFile" /\ last.out.err = "OK" =>
       /\ last.out.asset.fileLocation = last.args[1]
       /\ OnlyFieldChanged("fileLocation")
       /\ \A g \in DOMAIN last.out.asset : last.out.asset[g] # last.args[2]

\* C30 witness: setFile has refused a file name that is not accepted, on a
\* record on loan
C30_Witness ==
  /\ last.op = "setFile"
  /\ last.args = <<Location, ExeName>>
  /\ last.before.lendee = Bob
  /\ last.out.err = "UnsupportedFileType"
  /\ last.out.asset = last.before

\* the string value the payload of the Update made last gives for field f, if any
Given(f) ==
  LET updateData == last.args[2].obj
  IN  f \in DOMAIN updateData /\ updateData[f].t = "string"

\* C31: every stored record has an owner and a metadata that are not empty (nor
\* white space); a Create whose owner argument is empty or white space stores
\* the default owner; an Update whose payload gives an empty or white-space
\* string for owner or metadata fails.
C31_OwnerAndMetadataNonEmpty ==
  /\ \A k \in Keys :
       /\ Trim(Record(store, k).owner) # <<>>
       /\ Trim(Record(store, k).metadata) # <<>>
  /\ (/\ last.op = "Create" /\ last.err = "OK"
      /\ Len(last.args) >= 2 /\ Trim(last.args[2]) = <<>>)
     => Record(store, last.args[1]).owner = DEFAULT_OWNER
  /\ last.op = "Update" =>
       \A f \in {"owner", "metadata"} :
         Given(f) /\ Trim(last.args[2].obj[f].s) = <<>> => last.err # "OK"

\* C31 witness: a record created with a white-space owner has the default
\* owner, and an Update of it with white-space metadata has been refused
C31_Witness ==
  /\ last.op = "Update"
  /\ last.args[2].obj = [metadata |-> JString(<<" ">>)]
  /\ last.err = "EmptyField"
  /\ ISBN_1 \in Keys
  /\ Record(store, ISBN_1).owner = DEFAULT_OWNER
  /\ Record(store, ISBN_1).metadata = metadataHandler(ISBN_1).value

\* the file names and MIME types of the inputs that have an accepted extension
AcceptedNames == {PdfName, MimePdf}

\* the file location of the record under k, "" when there is no record
FileOf(st, k) == IF k \in DOMAIN st THEN Record(st, k).fileLocation ELSE <<>>

\* the invocation gives the file location with an accepted file name
GivesFile(call, location) ==
  \/ /\ call.op = "Create"
     /\ Len(call.args) = 5
     /\ call.args[4] = location
     /\ call.args[5] \in AcceptedNames
  \/ /\ call.op = "Update"
     /\ {"fileLocation", "fileMimeOrName"} \subseteq DOMAIN call.args[2].obj
     /\ call.args[2].obj["fileLocation"] = JString(location)
     /\ call.args[2].obj["fileMimeOrName"].s \in AcceptedNames

\* C32: the file location of a record changes (for a new record: is other than
\* "") only in a successful Create or Update on its key that gives the new
\* location together with an accepted file name or MIME type; an Update whose
\* payload has fileLocation and no fileMimeOrName, or one that is not accepted,
\* fails and leaves the store as it is.
C32_FileOnlyWithAcceptedName ==
  [][/\ \A k \in DOMAIN store' :
          FileOf(store', k) # FileOf(store, k) =>
            /\ last'.err = "OK"
            /\ last'.args[1] = k
            /\ GivesFile(last', FileOf(store', k))
     /\ (/\ last'.op = "Update"
         /\ "fileLocation" \in DOMAIN last'.args[2].obj
         /\ ~GivesFile(last', last'.args[2].obj["fileLocation"].s))
        => last'.err # "OK" /\ store' = store]_vars

\* C32 witness: an Update has given a record created without a file its
\* location, with an accepted file name
C32_Witness ==
  /\ last.op = "Update"
  /\ last.err = "OK"
  /\ last.args[2].obj = [fileLocation |-> JString(Location), fileMimeOrName |-> JString(PdfName)]
  /\ Record(store, ISBN_1).fileLocation = Location
  /\ Record(store, ISBN_1).owner = DEFAULT_OWNER

\* value with every "/" replaced by "%2F"
PercentSlash(value) ==
  Concat([i \in 1..Len(value) |-> IF value[i] = "/" THEN <<"%", "2", "F">> ELSE <<value[i]>>])

ReadsWhatItWrites(tx) ==
  /\ DOMAIN tx.writes # {}
  /\ DOMAIN tx.writes \subseteq DOMAIN tx.reads

\* both invocations read key k at the same version
SameSnapshot(tx1, tx2, k) ==
  /\ k \in DOMAIN tx1.reads \cap DOMAIN tx2.reads
  /\ tx1.reads[k] = tx2.reads[k]

\* C34: every submitted Create, Update, Lend, Return and Delete has the key
\* it writes or deletes in its read set, so no two committed invocations that
\* write one key have read it at the same version; in particular two Lend
\* invocations simulated on the same open record are not both committed, and
\* after the commit of a Lend the stored lendee is the one it was given.
C34_WritersReadTheirKey ==
  /\ \A i \in 1..Len(last.pending) : ReadsWhatItWrites(last.pending[i])
  /\ \A i \in 1..Len(last.done) : ReadsWhatItWrites(last.done[i])
  /\ \A i, j \in 1..Len(last.done) :
       i < j =>
         \A k \in DOMAIN last.done[i].writes \cap DOMAIN last.done[j].writes :
           ~SameSnapshot(last.done[i], last.done[j], k)
  /\ last.op = "Commit" /\ last.tx.op = "Lend" =>
       /\ Record(store, last.tx.args[1]).status = STATUS_LOANED
       /\ Record(store, last.tx.args[1]).lendee = last.tx.args[2]

\* C34 witness: two Lend invocations were simulated on the same open record;
\* the one for Bob was committed, and the one for Carol has been rejected
C34_Witness ==
  /\ last.op = "Invalidate"
  /\ last.tx.op = "Lend"
  /\ last.tx.args[2] = Carol
  /\ \E i \in 1..Len(last.done) :
       /\ last.done[i].op = "Lend"
       /\ last.done[i].args[2] = Bob
       /\ SameSnapshot(last.done[i], last.tx, ISBN_1)
  /\ Record(store, ISBN_1).lendee = Bob

\* the update payload {"status": "open"}
Reopen == [kind |-> "object", obj |-> [status |-> JString(STATUS_OPEN)]]

\* r is the outcome of a successful operation that leaves the record under k open
Opens(r, k) ==
  /\ r.err = "OK"
  /\ k \in DOMAIN r.store
  /\ Record(r.store, k).status = <<"o", "p", "e", "n">>

\* C35: no status is terminal.  Every stored record is open, loaned or locked;
\* a loaned record is open after a Return, which succeeds, a locked or loaned
\* one after an Update with status "open", which succeeds; and Delete of a
\* stored record succeeds at once, whatever its status, and removes the key.
C35_NoStatusTerminal ==
  \A k \in Keys :
    LET status == Record(store, k).status
        deleted == DeleteAsset(store, k)
    IN  /\ Recognized(status)
        /\ status = STATUS_LOANED => Opens(ReturnAsset(store, k, clock), k)
        /\ status # STATUS_OPEN => Opens(UpdateAsset(store, k, Reopen, clock), k)
        /\ deleted.err = "OK"
        /\ k \notin DOMAIN deleted.store

\* C35 witness: a record that was lent and then locked, its lendee still
\* there, which an Update opens and Delete removes
C35_Witness ==
  /\ last.op = "Update"
  /\ last.err = "OK"
  /\ ISBN_1 \in Keys
  /\ Record(store, ISBN_1).status = STATUS_LOCKED
  /\ Record(store, ISBN_1).lendee = Bob
  /\ Opens(UpdateAsset(store, ISBN_1, Reopen, clock), ISBN_1)
  /\ DeleteAsset(store, ISBN_1).err = "OK"

\* the preconditions of Create that the arguments violate in the store
Violated(args) ==
  {kind \in {"UnsupportedIdentifier", "AlreadyExists", "InvalidStatus", "MissingFileType"} :
     CASE kind = "UnsupportedIdentifier" -> ~HasIdentifierForm(args[1])
       [] kind = "AlreadyExists" -> args[1] \in Keys
       [] kind = "InvalidStatus" -> ~Recognized(StatusOf(args))
       [] kind = "MissingFileType" -> LocationWithoutName(args)}

\* the first kind of the order that is among the kinds
FirstOf(order, kinds) == order[SetMin({i \in 1..Len(order) : order[i] \in kinds})]

\* Create reports the first violated precondition of the order, if there is one
ReportsInOrder(order) ==
  \A args \in CreateArgsWithFile :
    Violated(args) # {} =>
      CreateAsset(store, args, clock) = Fail(FirstOf(order, Violated(args)), store)

\* C36 (as claimed): a Create that violates several preconditions reports the
\* first in the order UnsupportedIdentifier, AlreadyExists, InvalidStatus,
\* MissingFileType, and writes nothing.
C36_ErrorOrderStatusFirst ==
  ReportsInOrder(<<"UnsupportedIdentifier", "AlreadyExists", "InvalidStatus", "MissingFileType">>)

\* C36 (amended): a Create that violates several preconditions reports the
\* first in the order UnsupportedIdentifier, AlreadyExists, MissingFileType,
\* InvalidStatus, and writes nothing; with both an unrecognized status and a
\* file location without a file name it fails with MissingFileType.
C36_ErrorOrderFileFirst ==
  ReportsInOrder(<<"UnsupportedIdentifier", "AlreadyExists", "MissingFileType", "InvalidStatus">>)

\* C36 witness: one key is present; a Create with an unknown status and a file
\* location without a file name is refused for the missing file name on the
\* absent key, for the key on the present one, and for the identifier when
\* that is empty
C36_Witness ==
  /\ Keys = {ISBN_1}
  /\ \A id \in IdentifierArgs :
       CreateAsset(store, <<id, Alice, <<"l", "o", "s", "t">>, Location>>, clock).err =
         (IF id = DOI_ab THEN "MissingFileType"
          ELSE IF id = ISBN_1 THEN "AlreadyExists" ELSE "UnsupportedIdentifier")

\* the field names of the record table
RecordFields ==
  {"identifier", "metadata", "owner", "lendee", "status", "createdAt", "updatedAt",
   "licenseEndsAt", "fileLocation"}

\* C37: every stored record has exactly the fields identifier, metadata, owner,
\* lendee, status, createdAt, updatedAt, licenseEndsAt and fileLocation, each
\* written once in the stored text, and its status is open, loaned or locked;
\* this holds after every operation, an Update whose payload names other
\* properties included.
C37_ExactFields ==
  \A k \in Keys :
    /\ DOMAIN Record(store, k) = RecordFields
    /\ Len(store[k]) = Cardinality(RecordFields)
    /\ Recognized(Record(store, k).status)

\* C37 witness: a record with a file, after a successful Update whose payload
\* names a property that is no field of the record
C37_Witness ==
  /\ last.op = "Update"
  /\ last.err = "OK"
  /\ last.args[2].obj = [title |-> JString(<<"t">>)]
  /\ Record(store, ISBN_1).fileLocation = Location
  /\ DOMAIN Record(store, ISBN_1) = RecordFields

\* new Date(s).getTime() for a string of 1 January 1970 as toISOString writes
\* it; -1 stands for NaN, the time of a string that is no such instant
Instant(s) ==
  IF /\ Len(s) = 24
     /\ validateISO(s)
     /\ SubSeq(s, 1, 11) = <<"1", "9", "7", "0", "-", "0", "1", "-", "0", "1", "T">>
     /\ s[24] = "Z"
  THEN 3600000 * NumberAt(s, 12) + 60000 * NumberAt(s, 15) + 1000 * NumberAt(s, 18)
       + 100 * DigitValue(s[21]) + 10 * DigitValue(s[22]) + DigitValue(s[23])
  ELSE -1

\* C38: with transaction timestamps that never decrease from one committed
\* invocation to the next, createdAt and updatedAt of every stored record are
\* instants, and updatedAt is not earlier than createdAt.
C38_UpdatedNotBeforeCreated ==
  \A k \in Keys :
    /\ Instant(Record(store, k).createdAt) >= 0
    /\ Instant(Record(store, k).updatedAt) >= Instant(Record(store, k).createdAt)
    /\ Instant(Record(store, k).updatedAt) <= clock

\* C38 witness: a record created at time 0 and lent at a later time
C38_Witness ==
  /\ last.op = "Lend"
  /\ last.err = "OK"
  /\ clock > 0
  /\ Instant(Record(store, ISBN_1).createdAt) = 0
  /\ Instant(Record(store, ISBN_1).updatedAt) = clock

\* the record of a new asset: what the arguments of Create and the time of
\* the invocation give, and the values of a new record otherwise
Fresh(args) ==
  [identifier |-> args[1],
   metadata |-> OpenLibraryPrefix \o <<"I", "S", "B", "N", ":", "1">> \o OpenLibrarySuffix,
   owner |-> IF Trim(Arg(args, 2, <<>>)) = <<>> THEN DEFAULT_OWNER ELSE Trim(args[2]),
   lendee |-> <<"n", "o", "n", "e">>,
   createdAt |-> ToISOString(clock),
   updatedAt |-> ToISOString(clock),
   status |-> StatusOf(args),
   licenseEndsAt |-> <<>>,
   fileLocation |-> <<>>]

\* C39: after a successful Delete of ISBN_1, every Create of ISBN_1 with an
\* accepted status succeeds, and the record it writes is that of a new asset:
\* createdAt and updatedAt the now of the Create, lendee "none", the metadata
\* resolved from the identifier, owner and status from the arguments, whatever
\* the deleted record held.
C39_CreateAfterDeleteIsFresh ==
  last.op = "Delete" /\ last.out.err = "OK" =>
    /\ store = last.out.store
    /\ \A args \in {a \in CreateArgs : a[1] = last.args[1] /\ Recognized(StatusOf(a))} :
         LET r == CreateAsset(store, args, clock)
         IN  /\ r.err = "OK"
             /\ Record(r.store, args[1]) = Fresh(args)

\* C39 witness: a record created at time 0 for Alice and on loan to Bob has
\* been deleted, the ledger time has advanced, and Create succeeds again
C39_Witness ==
  /\ last.op = "Delete"
  /\ last.out.err = "OK"
  /\ clock > 0
  /\ Record(last.before, ISBN_1).createdAt = ToISOString(0)
  /\ Record(last.before, ISBN_1).owner = Alice
  /\ Record(last.before, ISBN_1).lendee = Bob
  /\ Record(last.before, ISBN_1).status = STATUS_LOANED
  /\ CreateAsset(store, <<ISBN_1>>, clock).err = "OK"
  /\ Record(CreateAsset(store, <<ISBN_1>>, clock).store, ISBN_1).owner = DEFAULT_OWNER

\* the extensions of the accepted set, as the inputs write them
AcceptedWritten ==
  {<<"p", "d", "f">>, <<"P", "D", "F">>, <<"e", "p", "u", "b">>, <<"t", "x", "t">>,
   <<"j", "s", "o", "n">>, <<"j", "p", "g">>, <<"j", "p", "e", "g">>, <<"p", "n", "g">>}

\* the last extension of the file name, before any query string
NameExtension(given) == IF given.ext # <<>> THEN given.ext ELSE given.first

\* the extension that ends the whole string
TrailingExtension(given) == IF given.queried THEN given.query ELSE NameExtension(given)

\* C40 (as claimed): isAcceptedFileExtension is true exactly when the trailing
\* extension of the string, or the MIME subtype without its ";" parameters and
\* "+" suffix, is one of pdf, epub, txt, json, jpg, jpeg, png in either case,
\* and false for every other string.
C40_AcceptsTrailingExtension ==
  last.op = "Check" =>
    last.out = (IF last.given.kind = "mime"
                THEN last.given.subtype \in AcceptedWritten
                ELSE TrailingExtension(last.given) \in AcceptedWritten)

\* C40 (amended): isAcceptedFileExtension is true exactly when the first
\* extension of the string that ends it or is followed by "?" (the last
\* extension of the file name, or, for a name without extension, the
\* extension that ends its query string), or the MIME subtype without its ";"
\* parameters and "+" suffix, is one of pdf, epub, txt, json, jpg, jpeg, png in
\* either case, and false for every other string, the empty string and a name
\* whose last extension is not in the set included.
C40_AcceptsFirstClosedExtension ==
  last.op = "Check" =>
    last.out = (IF last.given.kind = "mime"
                THEN last.given.subtype \in AcceptedWritten
                ELSE IF NameExtension(last.given) # <<>>
                     THEN NameExtension(last.given) \in AcceptedWritten
                     ELSE last.given.query \in AcceptedWritten)

\* C40 witness: the check has refused a name whose last extension is not
\* accepted, though an accepted one comes before it and ends its query string
C40_Witness ==
  /\ last.op = "Check"
  /\ last.given.text = <<"b", ".", "p", "d", "f", ".", "e", "x", "e", "?", "x", "=", ".", "p", "d", "f">>
  /\ last.out = FALSE

=============================================================================
